---- MODULE Spec2Model ----
(***************************************************************************)
(* Model of the OIDC backing store of demo-shop:                           *)
(*   internal/storage/oidcstorage.go   (OIDCStorage, token store, facade)  *)
(*   internal/storage  AuthRequestStore (authorization requests)           *)
(*   internal/storage  UserInfoStore    (users and claims)                 *)
(*   internal/storage  ClientStore      (client registry)                  *)
(*   api/v1/oidc.go                     (login handlers)                   *)
(* Every store method runs under its store's lock for its whole body, so   *)
(* each method is one atomic action.  The protocol engine's multi-call     *)
(* flows (code exchange, refresh) are processes that call the methods one  *)
(* step at a time.  The rotation and callback specifications run the       *)
(* methods one statement at a time, with the stores' mutexes as state; the *)
(* exchange and refresh specifications run token requests side by side on  *)
(* the same goroutines.                                                    *)
(***************************************************************************)
EXTENDS Integers, Sequences, FiniteSets, TLC

(* ------------------------------ bounds -------------------------------- *)
\* number of uuid.New() values the run may draw
MaxUUID == 5
\* number of authorization requests in the store at one time
MaxRequests == 1
\* number of times the wall clock is observed to advance
MaxTicks == 1
\* number of protocol-engine flows running side by side
NumProcs == 1
\* number of times a client presents the same authorization code
MaxAttempts == 2
\* number of goroutines serving requests at the same time
NumThreads == 2
\* client ids generated by CreateClient
MaxClients == 1
\* uuid.New() values drawn in the runs of refreshes served side by side: one
\* request, its token pair and two successor pairs
MaxRefreshUUID == 7

(* --------------------------- program constants ------------------------ *)
\* the empty string "" where the code uses it for "no id"
EmptyID == 0
\* time.Hour, the access token lifetime, in hours
AccessTTL == 1
\* 24 * time.Hour * 30, the refresh token lifetime, in hours
RefreshTTL == 720

Procs == 1..NumProcs
Threads == 1..NumThreads
UUIDs == 1..MaxUUID
\* how far the clock may jump between two observations: to the end of an access
\* token's lifetime, or past a refresh token's lifetime
TickSteps == {AccessTTL, RefreshTTL + 1}
\* client ids an inbound request may carry
ClientIDs == {"demo-client", "other-client"}
\* scope lists an inbound request may carry
ScopeLists == {<<"openid">>, <<"openid", "profile">>, <<"openid", "email">>}
\* subjects: the seeded demo users
DemoUserIDs == {"user1", "admin1"}

VARIABLES
  requests,       \* AuthRequestStore.requests: the ids present in the map
  objs,           \* the *AuthRequest objects the map and held pointers refer to
  tokens,         \* OIDCStorage.tokens
  refreshTokens,  \* OIDCStorage.refreshTokens
  users,          \* UserInfoStore.users
  uuid,           \* number of uuid.New() values drawn so far
  now,            \* time.Now(), in hours
  ticks,          \* number of clock advances so far
  ex,             \* the protocol-engine flows: position and held values
  mus,            \* the sync.RWMutex of each store: its writer and its readers
  th,             \* the request-handling goroutines: position and local values
  redirects,      \* the callback URLs handleLogin has redirected a browser to
  clients,        \* ClientStore.clients
  keyStore,       \* OIDCStorage.signingKey and OIDCStorage.keyID
  last            \* the last store call: its arguments and what it returned

vars == <<requests, objs, tokens, refreshTokens, users, uuid, now, ticks, ex, mus, th,
          redirects, clients, keyStore, last>>

(* ------------------------------ helpers ------------------------------- *)
\* m[k] = v on a Go map
Put(m, k, v) == [x \in (DOMAIN m) \cup {k} |-> IF x = k THEN v ELSE m[x]]
\* delete(m, k) on a Go map
Del(m, k) == [x \in (DOMAIN m) \ {k} |-> m[x]]
\* make(map[...]...)
EmptyMap == [x \in {} |-> 0]
\* for _, s := range list { if s == x ... }
Contains(list, x) == \E i \in 1..Len(list) : list[i] = x
\* for k, v := range b { a[k] = v }
Merge(a, b) == [k \in (DOMAIN a) \cup (DOMAIN b) |-> IF k \in DOMAIN b THEN b[k] ELSE a[k]]

(* ------------------------------ user store ---------------------------- *)
\* an OIDCUser
MkUser(id, username, password, email, given, family, preferred, locale, claims) ==
  [ID |-> id, Username |-> username, Password |-> password, Email |-> email,
   EmailVerified |-> TRUE, PreferredUsername |-> preferred, GivenName |-> given,
   FamilyName |-> family, Locale |-> locale, Claims |-> claims]

\* NewUserInfoStore: the two seeded demo users
SeedUsers ==
  [id \in DemoUserIDs |->
     IF id = "user1"
     THEN MkUser("user1", "demo@example.com", "password123", "demo@example.com",
                 "Demo", "User", "demo", "en", [role |-> "user"])
     ELSE MkUser("admin1", "admin@example.com", "admin123", "admin@example.com",
                 "Admin", "User", "admin", "en", [role |-> "admin"])]

\* custom claim maps a created user may carry (string values only)
ClaimMaps == {EmptyMap, [role |-> "user"], [email |-> "custom@example.com"],
              [name |-> "Custom Name"], [sub |-> "custom-sub"]}

\* the user records CreateUser and UpdateUser are called with
UserInputs ==
  {MkUser(id, "eve@example.com", "eve123", "eve@example.com", g, f, "eve", "en", c) :
     id \in {"", "user1", "eve1"}, g \in {"", "Eve"}, f \in {"", "Doe"}, c \in ClaimMaps}

\* OIDCUser.GetName; the modelled name parts carry no outer white space, so
\* TrimSpace only has to drop the joining blank next to an empty part
GetName(u) ==
  LET name == IF u.GivenName = "" THEN u.FamilyName
              ELSE IF u.FamilyName = "" THEN u.GivenName
              ELSE u.GivenName \o " " \o u.FamilyName
  IN IF name = "" THEN u.PreferredUsername ELSE name

\* OIDCUser.GetClaims: the standard claims, then the custom claims on top
GetClaims(u) ==
  Merge([sub |-> u.ID, email |-> u.Email, email_verified |-> u.EmailVerified,
         preferred_username |-> u.PreferredUsername, given_name |-> u.GivenName,
         family_name |-> u.FamilyName, name |-> GetName(u), locale |-> u.Locale],
        u.Claims)

\* UserInfoStore.GetUserByID
GetUserByID(userID) ==
  IF userID \in DOMAIN users
  THEN [err |-> "none", user |-> users[userID]]
  ELSE [err |-> "user not found"]

ProfileClaims == {"name", "given_name", "family_name", "preferred_username", "locale"}
EmailClaims == {"email", "email_verified"}

\* if v, ok := userClaims[k]; ok { claims[k] = v }   for each k of keys
CopyClaims(claims, userClaims, keys) ==
  Merge(claims, [k \in keys \cap DOMAIN userClaims |-> userClaims[k]])

\* the body of  for _, scope := range scopes { switch scope { ... } }
RECURSIVE ScopeLoop(_, _, _, _)
ScopeLoop(scopes, i, claims, userClaims) ==
  IF i > Len(scopes) THEN claims
  ELSE ScopeLoop(scopes, i + 1,
         CASE scopes[i] = "profile" -> CopyClaims(claims, userClaims, ProfileClaims)
           [] scopes[i] = "email"   -> CopyClaims(claims, userClaims, EmailClaims)
           [] OTHER                 -> claims,
         userClaims)

\* OIDCStorage.GetPrivateClaimsFromScopes
GetPrivateClaimsFromScopes(userID, clientID, scopes) ==
  LET r == GetUserByID(userID) IN
  IF r.err # "none" THEN [err |-> r.err]
  ELSE [err |-> "none",
        claims |-> Merge(ScopeLoop(scopes, 1, EmptyMap, GetClaims(r.user)), r.user.Claims)]

\* the zero oidc.UserInfo
ZeroUserInfo ==
  [Subject |-> "", Email |-> "", EmailVerified |-> FALSE, Name |-> "", GivenName |-> "",
   FamilyName |-> "", PreferredUsername |-> "", Locale |-> ""]

\* language.Parse accepts the locale: it rejects the empty tag
LocaleParses(locale) == locale # ""

\* OIDCStorage.SetUserinfoFromToken: tokenID is not read; every claim of the
\* user is a string except email_verified, so each type assertion succeeds
SetUserinfoFromToken(tokenID, subject) ==
  LET r == GetUserByID(subject) IN
  IF r.err # "none" THEN [err |-> r.err]
  ELSE LET claims == GetClaims(r.user) IN
       [err |-> "none",
        userinfo |->
          [Subject |-> claims["sub"], Email |-> claims["email"],
           EmailVerified |-> claims["email_verified"], Name |-> claims["name"],
           GivenName |-> claims["given_name"], FamilyName |-> claims["family_name"],
           PreferredUsername |-> claims["preferred_username"],
           Locale |-> IF LocaleParses(claims["locale"]) THEN claims["locale"]
                      ELSE ZeroUserInfo.Locale]]

(* ------------------------ authorization requests ---------------------- *)
\* an inbound *oidc.AuthRequest; pkce is its code challenge and challenge method
MkInbound(clientID, redirectURI, scopes, responseType, responseMode, state, nonce, pkce) ==
  [ClientID |-> clientID, RedirectURI |-> redirectURI, Scopes |-> scopes,
   ResponseType |-> responseType, ResponseMode |-> responseMode, State |-> state,
   Nonce |-> nonce, CodeChallenge |-> pkce[1], CodeChallengeMethod |-> pkce[2]]

\* the inbound request of a client that asks for a code without PKCE
InboundRequest(clientID, scopes) ==
  MkInbound(clientID, "http://localhost:8080/callback", scopes, "code", "", "state-1",
            "nonce-1", <<"", "">>)

\* a nil *oidc.CodeChallenge; a non-nil one is the set of the struct it points to
NilChallenge == {}

\* the &AuthRequest{...} literal of OIDCStorage.CreateAuthRequest
NewAuthRequest(id, authReq, userID) ==
  [ID |-> id, ClientID |-> authReq.ClientID, RedirectURI |-> authReq.RedirectURI,
   State |-> authReq.State, Nonce |-> authReq.Nonce, Scopes |-> authReq.Scopes,
   ResponseType |-> authReq.ResponseType, ResponseMode |-> authReq.ResponseMode,
   CodeChallenge |-> NilChallenge, UserID |-> userID, LoginHint |-> "", IsDone |-> FALSE]

\* the ids of the objects the flows still hold a pointer to
Held(e) == {e[p].ptr : p \in Procs} \ {EmptyID}
\* Go keeps an *AuthRequest alive while the map or a held pointer refers to it
Collect(o, reqs, e) == [i \in (DOMAIN o) \cap (reqs \cup Held(e)) |-> o[i]]

\* AuthRequestStore.AuthRequestByID
AuthRequestByID(id) ==
  IF id \in requests THEN [err |-> "none", ptr |-> id]
  ELSE [err |-> "auth request not found"]

\* AuthRequestStore.AuthRequestByCode: the code is used as the map key
AuthRequestByCode(code) ==
  IF code \in requests THEN [err |-> "none", ptr |-> code]
  ELSE [err |-> "auth request not found by code"]

\* the opaque code the engine derives from a request id by encryption: a value
\* that is no request id
EncryptedCode(id) == 0 - id
\* the codes SaveAuthCode is called with for a request: the id itself, or the
\* engine's encrypted code
CodesFor(id) == {id, EncryptedCode(id)}
Codes == UNION {CodesFor(id) : id \in UUIDs}

(* ------------------------------ client store -------------------------- *)
\* uuid.New().String() of the n-th value drawn
UUIDString(n) == "uuid-" \o ToString(n)

\* a *Client: its id, secret, redirect URIs and grant types
MkClient(id, secret, redirectURIs, grantTypes) ==
  [ClientID |-> id, ClientSecret |-> secret, ClientRedirectURIs |-> redirectURIs,
   ClientGrantTypes |-> grantTypes]

\* the default client NewClientStore registers
DefaultClient ==
  MkClient("demo-client", "demo-secret",
           <<"http://localhost:8080/callback", "http://localhost:3000/callback">>,
           <<"authorization_code", "refresh_token">>)

\* NewClientStore: the registry holds the default client
SeedClients == [c \in {"demo-client"} |-> DefaultClient]

\* ClientStore.GetClientByClientID
GetClientByClientID(clientID) ==
  IF clientID \notin DOMAIN clients THEN [err |-> "client not found"]
  ELSE [err |-> "none", client |-> clients[clientID]]

\* a client check that accepts any secret of a registered client
AuthorizeClientIDSecret_AnySecret(clientID, clientSecret) ==
  IF clientID \notin DOMAIN clients THEN "client not found"
  ELSE "none"

\* ClientStore.AuthorizeClientIDSecret: the error it returns
AuthorizeClientIDSecret(clientID, clientSecret) ==
  IF clientID \notin DOMAIN clients THEN "client not found"
  ELSE IF clients[clientID].ClientSecret # clientSecret THEN "invalid client secret"
  ELSE "none"

\* ClientStore.CreateClient: the error, the id the client is stored under and
\* the registry it leaves.  An empty ClientID is replaced by a fresh uuid.
CreateClientResult(client) ==
  LET id == IF client.ClientID = "" THEN UUIDString(uuid + 1) ELSE client.ClientID IN
  [err |-> "none", id |-> id,
   clients |-> Put(clients, id, [client EXCEPT !.ClientID = id]),
   uuid |-> IF client.ClientID = "" THEN uuid + 1 ELSE uuid]

\* an update that registers the client when it is not there
UpdateClientResult_Upsert(client) ==
  [err |-> "none", clients |-> Put(clients, client.ClientID, client)]

\* ClientStore.UpdateClient: the error and the registry it leaves
UpdateClientResult(client) ==
  IF client.ClientID \notin DOMAIN clients
  THEN [err |-> "client not found", clients |-> clients]
  ELSE [err |-> "none", clients |-> Put(clients, client.ClientID, client)]

\* ClientStore.DeleteClient: the error and the registry it leaves
DeleteClientResult(clientID) ==
  IF clientID \notin DOMAIN clients
  THEN [err |-> "client not found", clients |-> clients]
  ELSE [err |-> "none", clients |-> Del(clients, clientID)]

(* ------------------------------ signing key --------------------------- *)
\* NewOIDCStorage: the RSA key generated at construction and the uuid drawn as
\* its key id
NewKeys == [signingKey |-> "rsa-2048", keyID |-> "key-uuid"]

\* OIDCStorage.SigningKey
SigningKey == [err |-> "none", key |-> keyStore.signingKey, keyID |-> keyStore.keyID, alg |-> "RS256"]

\* the public half of an RSA private key
PublicKey(k) == <<"public", k>>

\* OIDCStorage.KeySet
KeySet ==
  [err |-> "none",
   list |-> <<[keyID |-> keyStore.keyID, alg |-> "RS256", key |-> PublicKey(keyStore.signingKey)]>>]

\* a key lookup that answers for every key id
GetKeyByIDAndClientID_AnyID(keyID, clientID) ==
  [err |-> "none",
   jwk |-> [KeyID |-> keyStore.keyID, Algorithm |-> "RS256", Use |-> "sig",
            Key |-> PublicKey(keyStore.signingKey)]]

\* OIDCStorage.GetKeyByIDAndClientID
GetKeyByIDAndClientID(keyID, clientID) ==
  IF keyID # keyStore.keyID THEN [err |-> "key not found"]
  ELSE [err |-> "none",
        jwk |-> [KeyID |-> keyStore.keyID, Algorithm |-> "RS256", Use |-> "sig",
                 Key |-> PublicKey(keyStore.signingKey)]]

(* ------------------------------ token store --------------------------- *)
\* a Token
MkToken(id, userID, clientID, scopes, created, expires, type, refresh) ==
  [ID |-> id, UserID |-> userID, ClientID |-> clientID, Scopes |-> scopes,
   CreatedAt |-> created, ExpiresAt |-> expires, TokenType |-> type,
   RefreshToken |-> refresh]

\* a *AuthRequest passed as op.TokenRequest
AuthTokenRequest(id) == [kind |-> "AuthRequest", ptr |-> id]
\* a *RefreshTokenRequest passed as op.TokenRequest
RefreshTokenRequest(rt, userID, clientID, scopes) ==
  [kind |-> "RefreshTokenRequest", RefreshToken |-> rt, UserID |-> userID,
   ClientID |-> clientID, Scopes |-> scopes]

\* time.Now().After(t)
After(t) == now > t

\* a rotation that forgets to drop the old entry of the refresh-token index
RemoveOldRefreshToken_KeepsIndex(toks, rts, currentRefreshToken) ==
  IF currentRefreshToken # EmptyID /\ currentRefreshToken \in DOMAIN rts
  THEN [tokens |-> Del(toks, rts[currentRefreshToken].ID), refreshTokens |-> rts]
  ELSE [tokens |-> toks, refreshTokens |-> rts]

\* "Remove old refresh token if provided": the tail of CreateAccessAndRefreshTokens
RemoveOldRefreshToken(toks, rts, currentRefreshToken) ==
  IF currentRefreshToken # EmptyID /\ currentRefreshToken \in DOMAIN rts
  THEN [tokens |-> Del(toks, rts[currentRefreshToken].ID),
        refreshTokens |-> Del(rts, currentRefreshToken)]
  ELSE [tokens |-> toks, refreshTokens |-> rts]

\* a token creation that drops the superseded refresh token before it looks at
\* the request
CreateAccessAndRefreshTokens_RemovesFirst(request, currentRefreshToken) ==
  LET rem0 == RemoveOldRefreshToken(tokens, refreshTokens, currentRefreshToken) IN
  IF request.kind # "AuthRequest"
  THEN [err |-> "unsupported token request type", accessTokenID |-> EmptyID,
        newRefreshTokenID |-> EmptyID, expiration |-> 0,
        tokens |-> rem0.tokens, refreshTokens |-> rem0.refreshTokens, uuid |-> uuid]
  ELSE LET req == objs[request.ptr]
           accessTokenID == uuid + 1
           refreshTokenID == uuid + 2
           expiresAt == now + AccessTTL
           accessToken == MkToken(accessTokenID, req.UserID, req.ClientID, req.Scopes,
                                  now, expiresAt, "access", refreshTokenID)
           refreshToken == MkToken(refreshTokenID, req.UserID, req.ClientID, req.Scopes,
                                   now, now + RefreshTTL, "refresh", EmptyID)
           toks == Put(Put(rem0.tokens, accessTokenID, accessToken),
                       refreshTokenID, refreshToken)
           rts == Put(rem0.refreshTokens, refreshTokenID, refreshToken)
       IN [err |-> "none", accessTokenID |-> accessTokenID,
           newRefreshTokenID |-> refreshTokenID, expiration |-> expiresAt,
           tokens |-> toks, refreshTokens |-> rts, uuid |-> uuid + 2]

\* OIDCStorage.CreateAccessAndRefreshTokens: what it returns and the maps it leaves.
\* The two ids drawn before the type switch are thrown away on the error
\* return, so that path leaves the uuid count as it was.
CreateAccessAndRefreshTokens(request, currentRefreshToken) ==
  IF request.kind # "AuthRequest"
  THEN [err |-> "unsupported token request type", accessTokenID |-> EmptyID,
        newRefreshTokenID |-> EmptyID, expiration |-> 0,
        tokens |-> tokens, refreshTokens |-> refreshTokens, uuid |-> uuid]
  ELSE LET req == objs[request.ptr]
           accessTokenID == uuid + 1
           refreshTokenID == uuid + 2
           expiresAt == now + AccessTTL
           accessToken == MkToken(accessTokenID, req.UserID, req.ClientID, req.Scopes,
                                  now, expiresAt, "access", refreshTokenID)
           refreshToken == MkToken(refreshTokenID, req.UserID, req.ClientID, req.Scopes,
                                   now, now + RefreshTTL, "refresh", EmptyID)
           toks == Put(Put(tokens, accessTokenID, accessToken), refreshTokenID, refreshToken)
           rts == Put(refreshTokens, refreshTokenID, refreshToken)
           rem == RemoveOldRefreshToken(toks, rts, currentRefreshToken)
       IN [err |-> "none", accessTokenID |-> accessTokenID,
           newRefreshTokenID |-> refreshTokenID, expiration |-> expiresAt,
           tokens |-> rem.tokens, refreshTokens |-> rem.refreshTokens, uuid |-> uuid + 2]

\* OIDCStorage.TokenRequestByRefreshToken
TokenRequestByRefreshToken(refreshTokenID) ==
  IF refreshTokenID \notin DOMAIN refreshTokens THEN [err |-> "refresh token not found"]
  ELSE IF After(refreshTokens[refreshTokenID].ExpiresAt) THEN [err |-> "refresh token expired"]
  ELSE LET token == refreshTokens[refreshTokenID] IN
       [err |-> "none",
        request |-> RefreshTokenRequest(refreshTokenID, token.UserID, token.ClientID, token.Scopes)]

\* OIDCStorage.GetRefreshTokenInfo
GetRefreshTokenInfo(clientID, token) ==
  IF token \notin DOMAIN refreshTokens THEN [err |-> "invalid refresh token"]
  ELSE IF refreshTokens[token].ClientID # clientID THEN [err |-> "invalid refresh token"]
  ELSE [err |-> "none", userID |-> refreshTokens[token].UserID,
        tokenID |-> refreshTokens[token].ID]

\* the zero oidc.IntrospectionResponse
ZeroIntrospection ==
  [Active |-> FALSE, ClientID |-> "", Subject |-> "", Expiration |-> 0, IssuedAt |-> 0,
   Scope |-> <<>>]

\* an introspection that skips the expiry comparison
SetIntrospectionFromToken_NoExpiry(tokenID, subject, clientID) ==
  IF tokenID \notin DOMAIN tokens THEN [err |-> "none", resp |-> ZeroIntrospection]
  ELSE LET token == tokens[tokenID] IN
       [err |-> "none",
        resp |-> [Active |-> TRUE, ClientID |-> token.ClientID, Subject |-> token.UserID,
                  Expiration |-> token.ExpiresAt, IssuedAt |-> token.CreatedAt,
                  Scope |-> token.Scopes]]

\* OIDCStorage.SetIntrospectionFromToken: the error and the response it fills in
SetIntrospectionFromToken(tokenID, subject, clientID) ==
  IF tokenID \notin DOMAIN tokens THEN [err |-> "none", resp |-> ZeroIntrospection]
  ELSE IF After(tokens[tokenID].ExpiresAt) THEN [err |-> "none", resp |-> ZeroIntrospection]
  ELSE LET token == tokens[tokenID] IN
       [err |-> "none",
        resp |-> [Active |-> TRUE, ClientID |-> token.ClientID, Subject |-> token.UserID,
                  Expiration |-> token.ExpiresAt, IssuedAt |-> token.CreatedAt,
                  Scope |-> token.Scopes]]

\* an access token that names itself as the refresh token it came with
CreateAccessToken_Paired(request) ==
  IF request.kind # "AuthRequest"
  THEN [err |-> "unsupported token request type", accessTokenID |-> EmptyID,
        expiration |-> 0, tokens |-> tokens, uuid |-> uuid]
  ELSE LET req == objs[request.ptr]
           tokenID == uuid + 1
           expiresAt == now + AccessTTL
           token == MkToken(tokenID, req.UserID, req.ClientID, req.Scopes,
                            now, expiresAt, "access", tokenID)
       IN [err |-> "none", accessTokenID |-> tokenID, expiration |-> expiresAt,
           tokens |-> Put(tokens, tokenID, token), uuid |-> uuid + 1]

\* OIDCStorage.CreateAccessToken: what it returns and the token map it leaves
CreateAccessToken(request) ==
  IF request.kind # "AuthRequest"
  THEN [err |-> "unsupported token request type", accessTokenID |-> EmptyID,
        expiration |-> 0, tokens |-> tokens, uuid |-> uuid]
  ELSE LET req == objs[request.ptr]
           tokenID == uuid + 1
           expiresAt == now + AccessTTL
           token == MkToken(tokenID, req.UserID, req.ClientID, req.Scopes,
                            now, expiresAt, "access", EmptyID)
       IN [err |-> "none", accessTokenID |-> tokenID, expiration |-> expiresAt,
           tokens |-> Put(tokens, tokenID, token), uuid |-> uuid + 1]

\* a session match that looks at the subject only
SessionTokens_AnyClient(toks, userID, clientID) ==
  {id \in DOMAIN toks : toks[id].UserID = userID}

\* the ids TerminateSession's loop deletes:
\* token.UserID == userID && token.ClientID == clientID
SessionTokens(toks, userID, clientID) ==
  {id \in DOMAIN toks : toks[id].UserID = userID /\ toks[id].ClientID = clientID}

\* a sweep that forgets the refresh-token index
TerminateSession_KeepsIndex(userID, clientID) ==
  LET gone == SessionTokens(tokens, userID, clientID) IN
  [err |-> "none", tokens |-> [id \in (DOMAIN tokens) \ gone |-> tokens[id]],
   refreshTokens |-> refreshTokens]

\* OIDCStorage.TerminateSession: the maps the loop leaves.  Deleting from a Go
\* map while ranging over it is defined, and every matching entry is visited
TerminateSession(userID, clientID) ==
  LET gone == SessionTokens(tokens, userID, clientID)
      goneRefresh == {tokens[id].ID : id \in {g \in gone : tokens[g].TokenType = "refresh"}}
  IN [err |-> "none", tokens |-> [id \in (DOMAIN tokens) \ gone |-> tokens[id]],
      refreshTokens |-> [id \in (DOMAIN refreshTokens) \ goneRefresh |-> refreshTokens[id]]]

\* a revocation by id that forgets the refresh-token index
RevokeByID_KeepsIndex(toks, rts, tokenOrTokenID) ==
  [tokens |-> Del(toks, tokenOrTokenID), refreshTokens |-> rts]

\* "Try to find token by ID first": the branch RevokeToken takes for a stored token id
RevokeByID(toks, rts, tokenOrTokenID) ==
  [tokens |-> Del(toks, tokenOrTokenID),
   refreshTokens |-> IF toks[tokenOrTokenID].TokenType = "refresh"
                     THEN Del(rts, tokenOrTokenID) ELSE rts]

\* "Try to find refresh token by token value": the branch for a value found
\* in the refresh-token index only
RevokeByValue(toks, rts, tokenOrTokenID) ==
  [tokens |-> Del(toks, rts[tokenOrTokenID].ID), refreshTokens |-> Del(rts, tokenOrTokenID)]

\* a revocation of a refresh token that also deletes the access token paired with it
RevokeToken_Cascade(tokenOrTokenID, userID, clientID) ==
  IF tokenOrTokenID \in DOMAIN tokens
  THEN LET r == RevokeByID(tokens, refreshTokens, tokenOrTokenID)
           paired == {t \in DOMAIN r.tokens : r.tokens[t].RefreshToken = tokenOrTokenID}
       IN [err |-> "none", tokens |-> [t \in (DOMAIN r.tokens) \ paired |-> r.tokens[t]],
           refreshTokens |-> r.refreshTokens]
  ELSE IF tokenOrTokenID \in DOMAIN refreshTokens
  THEN LET r == RevokeByValue(tokens, refreshTokens, tokenOrTokenID) IN
       [err |-> "none", tokens |-> r.tokens, refreshTokens |-> r.refreshTokens]
  ELSE [err |-> "token not found", tokens |-> tokens, refreshTokens |-> refreshTokens]

\* OIDCStorage.RevokeToken: the *oidc.Error it returns (nil is "none") and the
\* maps it leaves; userID and clientID are not read
RevokeToken(tokenOrTokenID, userID, clientID) ==
  IF tokenOrTokenID \in DOMAIN tokens
  THEN LET r == RevokeByID(tokens, refreshTokens, tokenOrTokenID) IN
       [err |-> "none", tokens |-> r.tokens, refreshTokens |-> r.refreshTokens]
  ELSE IF tokenOrTokenID \in DOMAIN refreshTokens
  THEN LET r == RevokeByValue(tokens, refreshTokens, tokenOrTokenID) IN
       [err |-> "none", tokens |-> r.tokens, refreshTokens |-> r.refreshTokens]
  ELSE [err |-> "token not found", tokens |-> tokens, refreshTokens |-> refreshTokens]

(* ------------------------------- state -------------------------------- *)
\* a flow that holds nothing.  code and id: the authorization code the client
\* holds and the request it was issued for; first: how the first exchange of
\* that code ended; ptr: the *AuthRequest held; rt, req: the refresh token
\* presented and the request resolved from it; at, nrt: the pair issued
IdleProc ==
  [pc |-> "idle", code |-> EmptyID, id |-> EmptyID, first |-> "none",
   ptr |-> EmptyID, rt |-> EmptyID,
   req |-> [kind |-> "none"], at |-> EmptyID, nrt |-> EmptyID, attempt |-> 0,
   err |-> "none"]

\* a sync.RWMutex nobody holds: w is the goroutine holding it for writing
\* (0 for none), r the goroutines holding it for reading
FreeMutex == [w |-> 0, r |-> {}]
\* Lock() returns: no writer and no reader holds the mutex
CanLock(m) == m.w = 0 /\ m.r = {}
\* a read lock that is granted while a writer holds the mutex
CanRLock_IgnoresWriter(m) == TRUE
\* RLock() returns: no writer holds the mutex
CanRLock(m) == m.w = 0

\* a goroutine that serves no request.  op, id, cur, userID, clientID, code: the
\* call and its arguments; at, nrt: the ids drawn; stored: cur was a stored
\* refresh token when the lock was taken; ret: what the call read
IdleThread ==
  [pc |-> "idle", op |-> "none", id |-> EmptyID, cur |-> EmptyID, userID |-> "",
   clientID |-> "", code |-> EmptyID, at |-> EmptyID, nrt |-> EmptyID, stored |-> FALSE,
   ret |-> "none"]

\* NewOIDCStorage: empty request and token maps, the seeded users
Init ==
  /\ requests = {}
  /\ objs = EmptyMap
  /\ tokens = EmptyMap
  /\ refreshTokens = EmptyMap
  /\ users = SeedUsers
  /\ uuid = 0
  /\ now = 0
  /\ ticks = 0
  /\ ex = [p \in Procs |-> IdleProc]
  /\ mus = [tokensMu |-> FreeMutex, mu |-> FreeMutex, clientMu |-> FreeMutex,
            userMu |-> FreeMutex]
  /\ th = [t \in Threads |-> IdleThread]
  /\ redirects = {}
  /\ clients = SeedClients
  /\ keyStore = NewKeys
  /\ last = [op |-> "none"]

\* the subject the login page hands to the callback
LoginUserIDs == {"admin1"}

(* ---------------------- authorization request actions ----------------- *)
\* OIDCStorage.CreateAuthRequest
CreateAuthRequest(clientID, scopes, userID) ==
  /\ uuid + 1 <= MaxUUID
  /\ Cardinality(requests) < MaxRequests
  /\ LET id == uuid + 1 IN
     /\ objs' = Put(objs, id, NewAuthRequest(id, InboundRequest(clientID, scopes), userID))
     /\ requests' = requests \cup {id}
     /\ uuid' = id
     /\ last' = [op |-> "CreateAuthRequest", id |-> id, err |-> "none"]
  /\ UNCHANGED <<tokens, refreshTokens, users, now, ticks, ex, mus, th, redirects, clients, keyStore>>

\* OIDCStorage.CreateAuthRequest with every field of the inbound request given
CreateAuthRequestFrom(authReq, userID) ==
  /\ uuid + 1 <= MaxUUID
  /\ Cardinality(requests) < MaxRequests
  /\ LET id == uuid + 1 IN
     /\ objs' = Put(objs, id, NewAuthRequest(id, authReq, userID))
     /\ requests' = requests \cup {id}
     /\ uuid' = id
     /\ last' = [op |-> "CreateAuthRequest", id |-> id, err |-> "none",
                 authReq |-> authReq, userID |-> userID]
  /\ UNCHANGED <<tokens, refreshTokens, users, now, ticks, ex, mus, th, redirects,
                 clients, keyStore>>

\* OIDCRouter.loginCallback: look the request up by id, set its subject, mark it done
LoginCallback(authRequestID, userID) ==
  /\ LET r == AuthRequestByID(authRequestID) IN
     IF authRequestID = EmptyID \/ userID = ""
     THEN /\ last' = [op |-> "loginCallback", id |-> authRequestID,
                      err |-> "Missing authRequestID or userID"]
          /\ UNCHANGED objs
     ELSE IF r.err # "none"
     THEN /\ last' = [op |-> "loginCallback", id |-> authRequestID, err |-> "Invalid auth request"]
          /\ UNCHANGED objs
     ELSE /\ objs' = [objs EXCEPT ![r.ptr].UserID = userID, ![r.ptr].IsDone = TRUE]
          /\ last' = [op |-> "loginCallback", id |-> authRequestID, err |-> "none"]
  /\ UNCHANGED <<requests, tokens, refreshTokens, users, uuid, now, ticks, ex, mus, th,
               redirects, clients, keyStore>>

\* AuthRequestStore.SaveAuthCode: the objects it leaves and its error
SaveAuthCodeResult(id, code) ==
  IF id \in requests
  THEN [err |-> "none", objs |-> [objs EXCEPT ![id].IsDone = TRUE]]
  ELSE [err |-> "auth request not found", objs |-> objs]

\* AuthRequestStore.SaveAuthCode, called on its own
SaveAuthCode(id, code) ==
  /\ LET r == SaveAuthCodeResult(id, code) IN
     /\ objs' = r.objs
     /\ last' = [op |-> "SaveAuthCode", id |-> id, code |-> code, err |-> r.err]
  /\ UNCHANGED <<requests, tokens, refreshTokens, users, uuid, now, ticks, ex, mus, th,
               redirects, clients, keyStore>>

\* the engine issues a code for a completed request: SaveAuthCode, then the
\* code travels to the client that runs flow p
IssueCode(p, id, code) ==
  /\ ex[p].pc = "idle"
  /\ id \in requests /\ objs[id].IsDone
  /\ LET r == SaveAuthCodeResult(id, code) IN
     /\ objs' = r.objs
     /\ last' = [op |-> "SaveAuthCode", id |-> id, code |-> code, err |-> r.err]
     /\ ex' = [ex EXCEPT ![p] = [IdleProc EXCEPT !.pc = "hasCode", !.code = code, !.id = id,
                                            !.attempt = 1]]
  /\ UNCHANGED <<requests, tokens, refreshTokens, users, uuid, now, ticks, mus, th,
               redirects, clients, keyStore>>

\* a deletion that reports success and leaves the request in the map
DeleteAuthRequestResult_Keeps(id) ==
  IF id \notin requests
  THEN [err |-> "auth request not found", requests |-> requests]
  ELSE [err |-> "none", requests |-> requests]

\* AuthRequestStore.DeleteAuthRequest: the map it leaves and its error
DeleteAuthRequestResult(id) ==
  IF id \notin requests
  THEN [err |-> "auth request not found", requests |-> requests]
  ELSE [err |-> "none", requests |-> requests \ {id}]

\* AuthRequestStore.DeleteAuthRequest, called on its own
DeleteAuthRequest(id) ==
  /\ LET r == DeleteAuthRequestResult(id) IN
     /\ requests' = r.requests
     /\ objs' = Collect(objs, r.requests, ex)
     /\ last' = [op |-> "DeleteAuthRequest", id |-> id, err |-> r.err]
  /\ UNCHANGED <<tokens, refreshTokens, users, uuid, now, ticks, ex, mus, th, redirects, clients, keyStore>>

(* ----------------------------- token actions -------------------------- *)
\* the call can draw the uuids it stores
CanCreate(request) == request.kind = "AuthRequest" => uuid + 2 <= MaxUUID

\* what a CreateAccessAndRefreshTokens call is recorded as: its arguments, whether
\* currentRefreshToken was a stored refresh token when it began, and its results
CreateRecord(request, currentRefreshToken, r) ==
  [op |-> "CreateAccessAndRefreshTokens", kind |-> request.kind,
   cur |-> currentRefreshToken, stored |-> currentRefreshToken \in DOMAIN refreshTokens,
   err |-> r.err, accessTokenID |-> r.accessTokenID,
   newRefreshTokenID |-> r.newRefreshTokenID, expiration |-> r.expiration]

\* an issuance that stores the token pair but leaves the refresh-token index alone
IssueTokens_TokensOnly(id, currentRefreshToken) ==
  /\ id \in requests
  /\ CanCreate(AuthTokenRequest(id))
  /\ LET r == CreateAccessAndRefreshTokens(AuthTokenRequest(id), currentRefreshToken) IN
     /\ tokens' = r.tokens
     /\ refreshTokens' = refreshTokens
     /\ uuid' = r.uuid
     /\ last' = CreateRecord(AuthTokenRequest(id), currentRefreshToken, r)
  /\ UNCHANGED <<requests, objs, users, now, ticks, ex, mus, th, redirects, clients, keyStore>>

\* OIDCStorage.CreateAccessAndRefreshTokens, called on its own with a stored request
IssueTokens(id, currentRefreshToken) ==
  /\ id \in requests
  /\ CanCreate(AuthTokenRequest(id))
  /\ LET r == CreateAccessAndRefreshTokens(AuthTokenRequest(id), currentRefreshToken) IN
     /\ tokens' = r.tokens
     /\ refreshTokens' = r.refreshTokens
     /\ uuid' = r.uuid
     /\ last' = CreateRecord(AuthTokenRequest(id), currentRefreshToken, r)
  /\ UNCHANGED <<requests, objs, users, now, ticks, ex, mus, th, redirects, clients, keyStore>>

\* code exchange, step 1: AuthRequestByCode(code)
ExchangeLookup(p) ==
  /\ ex[p].pc = "hasCode"
  /\ LET r == AuthRequestByCode(ex[p].code) IN
     /\ ex' = [ex EXCEPT ![p] =
                 IF r.err = "none" THEN [@ EXCEPT !.pc = "lookedUp", !.ptr = r.ptr]
                 ELSE [@ EXCEPT !.pc = "failed", !.err = r.err]]
     /\ last' = [op |-> "AuthRequestByCode", code |-> ex[p].code, ret |-> r]
  /\ UNCHANGED <<requests, objs, tokens, refreshTokens, users, uuid, now, ticks, mus,
               th, redirects, clients, keyStore>>

\* code exchange, step 2: CreateAccessAndRefreshTokens(request, "")
ExchangeIssue(p) ==
  /\ ex[p].pc = "lookedUp"
  /\ CanCreate(AuthTokenRequest(ex[p].ptr))
  /\ LET r == CreateAccessAndRefreshTokens(AuthTokenRequest(ex[p].ptr), EmptyID) IN
     /\ tokens' = r.tokens
     /\ refreshTokens' = r.refreshTokens
     /\ uuid' = r.uuid
     /\ ex' = [ex EXCEPT ![p].pc = "issued", ![p].at = r.accessTokenID,
                         ![p].nrt = r.newRefreshTokenID]
     /\ last' = CreateRecord(AuthTokenRequest(ex[p].ptr), EmptyID, r)
  /\ UNCHANGED <<requests, objs, users, now, ticks, mus, th, redirects, clients, keyStore>>

\* code exchange, step 3: DeleteAuthRequest(request.GetID())
ExchangeDelete(p) ==
  /\ ex[p].pc = "issued"
  /\ LET r == DeleteAuthRequestResult(objs[ex[p].ptr].ID) IN
     /\ requests' = r.requests
     /\ ex' = [ex EXCEPT ![p] =
                 IF r.err = "none" THEN [@ EXCEPT !.pc = "exchanged", !.ptr = EmptyID]
                 ELSE [@ EXCEPT !.pc = "failed", !.ptr = EmptyID, !.err = r.err]]
     /\ objs' = Collect(objs, r.requests, ex')
     /\ last' = [op |-> "DeleteAuthRequest", id |-> objs[ex[p].ptr].ID, err |-> r.err]
  /\ UNCHANGED <<tokens, refreshTokens, users, uuid, now, ticks, mus, th, redirects, clients, keyStore>>

\* the client presents the code it holds once more
ExchangeAgain(p) ==
  /\ ex[p].pc \in {"exchanged", "failed"}
  /\ ex[p].code # EmptyID
  /\ ex[p].attempt < MaxAttempts
  /\ ex' = [ex EXCEPT ![p] = [IdleProc EXCEPT !.pc = "hasCode", !.code = ex[p].code,
                                            !.id = ex[p].id,
                                            !.first = IF ex[p].attempt = 1 THEN ex[p].pc
                                                      ELSE ex[p].first,
                                            !.attempt = ex[p].attempt + 1]]
  /\ last' = [op |-> "retry"]
  /\ UNCHANGED <<requests, objs, tokens, refreshTokens, users, uuid, now, ticks, mus,
               th, redirects, clients, keyStore>>

\* refresh, step 1: TokenRequestByRefreshToken(refreshToken)
RefreshLookup(p, refreshToken) ==
  /\ ex[p].pc = "idle"
  /\ LET r == TokenRequestByRefreshToken(refreshToken) IN
     /\ ex' = [ex EXCEPT ![p] =
                 IF r.err = "none"
                 THEN [@ EXCEPT !.pc = "hasRequest", !.rt = refreshToken, !.req = r.request]
                 ELSE [@ EXCEPT !.pc = "failed", !.rt = refreshToken, !.err = r.err]]
     /\ last' = [op |-> "TokenRequestByRefreshToken", token |-> refreshToken, err |-> r.err]
  /\ UNCHANGED <<requests, objs, tokens, refreshTokens, users, uuid, now, ticks, mus,
               th, redirects, clients, keyStore>>

\* refresh, step 2: CreateAccessAndRefreshTokens(request, refreshToken)
RefreshIssue(p) ==
  /\ ex[p].pc = "hasRequest"
  /\ CanCreate(ex[p].req)
  /\ LET r == CreateAccessAndRefreshTokens(ex[p].req, ex[p].rt) IN
     /\ tokens' = r.tokens
     /\ refreshTokens' = r.refreshTokens
     /\ uuid' = r.uuid
     /\ ex' = [ex EXCEPT ![p] =
                 IF r.err = "none"
                 THEN [@ EXCEPT !.pc = "refreshed", !.at = r.accessTokenID,
                                !.nrt = r.newRefreshTokenID]
                 ELSE [@ EXCEPT !.pc = "failed", !.err = r.err]]
     /\ last' = CreateRecord(ex[p].req, ex[p].rt, r)
  /\ UNCHANGED <<requests, objs, users, now, ticks, mus, th, redirects, clients, keyStore>>

\* the flow ends and the engine drops what it held
Finish(p) ==
  /\ ex[p].pc \in {"exchanged", "refreshed", "failed"}
  /\ ex' = [ex EXCEPT ![p] = IdleProc]
  /\ objs' = Collect(objs, requests, ex')
  /\ last' = [op |-> "finish"]
  /\ UNCHANGED <<requests, tokens, refreshTokens, users, uuid, now, ticks, mus, th,
               redirects, clients, keyStore>>

\* OIDCStorage.CreateAccessToken, called on its own with a stored request
CallCreateAccessToken(id) ==
  /\ id \in requests
  /\ uuid + 1 <= MaxUUID
  /\ LET r == CreateAccessToken(AuthTokenRequest(id)) IN
     /\ tokens' = r.tokens
     /\ uuid' = r.uuid
     /\ last' = [op |-> "CreateAccessToken", kind |-> "AuthRequest", err |-> r.err,
                 accessTokenID |-> r.accessTokenID, expiration |-> r.expiration]
  /\ UNCHANGED <<requests, objs, refreshTokens, users, now, ticks, ex, mus, th,
                 redirects, clients, keyStore>>

\* the token requests the engine builds from the stored refresh tokens
RefreshRequests ==
  {TokenRequestByRefreshToken(rt).request :
     rt \in {t \in DOMAIN refreshTokens : TokenRequestByRefreshToken(t).err = "none"}}

\* OIDCStorage.CreateAccessToken, called with a request that is no *AuthRequest
CreateAccessTokenFor(request) ==
  /\ request.kind # "AuthRequest"
  /\ LET r == CreateAccessToken(request) IN
     /\ tokens' = r.tokens
     /\ uuid' = r.uuid
     /\ last' = [op |-> "CreateAccessToken", kind |-> request.kind, err |-> r.err,
                 accessTokenID |-> r.accessTokenID, expiration |-> r.expiration]
  /\ UNCHANGED <<requests, objs, refreshTokens, users, now, ticks, ex, mus, th,
                 redirects, clients, keyStore>>

\* OIDCStorage.CreateAccessAndRefreshTokens, called with a request that is no
\* *AuthRequest
IssueTokensFor(request, currentRefreshToken) ==
  /\ request.kind # "AuthRequest"
  /\ LET r == CreateAccessAndRefreshTokens(request, currentRefreshToken) IN
     /\ tokens' = r.tokens
     /\ refreshTokens' = r.refreshTokens
     /\ uuid' = r.uuid
     /\ last' = CreateRecord(request, currentRefreshToken, r)
  /\ UNCHANGED <<requests, objs, users, now, ticks, ex, mus, th, redirects, clients, keyStore>>

\* what introspection reports for every stored token id
IntrospectAll ==
  [t \in DOMAIN tokens |-> SetIntrospectionFromToken(t, "", "").resp]

\* OIDCStorage.TerminateSession is called; the record keeps the maps and the
\* introspection results the call started from
CallTerminateSession(userID, clientID) ==
  /\ LET r == TerminateSession(userID, clientID) IN
     /\ tokens' = r.tokens
     /\ refreshTokens' = r.refreshTokens
     /\ last' = [op |-> "TerminateSession", userID |-> userID, clientID |-> clientID,
                 err |-> r.err, tokensBefore |-> tokens,
                 refreshTokensBefore |-> refreshTokens, introBefore |-> IntrospectAll]
  /\ UNCHANGED <<requests, objs, users, uuid, now, ticks, ex, mus, th, redirects, clients, keyStore>>

\* the subject and client id arguments a revocation call is made with
RevokeArgs == {<<"", "other-client">>}

\* OIDCStorage.RevokeToken is called; the record keeps the maps and the
\* introspection results the call started from
CallRevokeToken(tokenOrTokenID, userID, clientID) ==
  /\ LET r == RevokeToken(tokenOrTokenID, userID, clientID) IN
     /\ tokens' = r.tokens
     /\ refreshTokens' = r.refreshTokens
     /\ last' = [op |-> "RevokeToken", token |-> tokenOrTokenID, userID |-> userID,
                 clientID |-> clientID, err |-> r.err, tokensBefore |-> tokens,
                 refreshTokensBefore |-> refreshTokens, introBefore |-> IntrospectAll]
  /\ UNCHANGED <<requests, objs, users, uuid, now, ticks, ex, mus, th, redirects, clients, keyStore>>

(* ------------------------------- queries ------------------------------ *)
\* the subject and client id arguments an introspection call is made with
IntrospectArgs == {<<"user1", "demo-client">>, <<"admin1", "other-client">>}

\* OIDCStorage.GetRefreshTokenInfo is called
CallGetRefreshTokenInfo(clientID, token) ==
  /\ last' = [op |-> "GetRefreshTokenInfo", clientID |-> clientID, token |-> token,
              ret |-> GetRefreshTokenInfo(clientID, token)]
  /\ UNCHANGED <<requests, objs, tokens, refreshTokens, users, uuid, now, ticks, ex,
               mus, th, redirects, clients, keyStore>>

\* OIDCStorage.SetIntrospectionFromToken is called
CallSetIntrospectionFromToken(tokenID, subject, clientID) ==
  /\ last' = [op |-> "SetIntrospectionFromToken", tokenID |-> tokenID,
              subject |-> subject, clientID |-> clientID,
              ret |-> SetIntrospectionFromToken(tokenID, subject, clientID)]
  /\ UNCHANGED <<requests, objs, tokens, refreshTokens, users, uuid, now, ticks, ex,
               mus, th, redirects, clients, keyStore>>

\* OIDCStorage.SetUserinfoFromToken is called
CallSetUserinfoFromToken(tokenID, subject) ==
  /\ last' = [op |-> "SetUserinfoFromToken", tokenID |-> tokenID, subject |-> subject,
              ret |-> SetUserinfoFromToken(tokenID, subject)]
  /\ UNCHANGED <<requests, objs, tokens, refreshTokens, users, uuid, now, ticks, ex,
               mus, th, redirects, clients, keyStore>>

\* OIDCStorage.GetPrivateClaimsFromScopes is called
CallGetPrivateClaimsFromScopes(userID, clientID, scopes) ==
  /\ last' = [op |-> "GetPrivateClaimsFromScopes", userID |-> userID, scopes |-> scopes,
              ret |-> GetPrivateClaimsFromScopes(userID, clientID, scopes)]
  /\ UNCHANGED <<requests, objs, tokens, refreshTokens, users, uuid, now, ticks, ex,
               mus, th, redirects, clients, keyStore>>

(* ----------------------------- user actions --------------------------- *)
\* UserInfoStore.CreateUser
CreateUser(user) ==
  /\ IF user.ID = ""
     THEN /\ last' = [op |-> "CreateUser", id |-> user.ID, err |-> "user ID cannot be empty"]
          /\ UNCHANGED users
     ELSE IF user.ID \in DOMAIN users
     THEN /\ last' = [op |-> "CreateUser", id |-> user.ID, err |-> "user already exists"]
          /\ UNCHANGED users
     ELSE /\ users' = Put(users, user.ID, user)
          /\ last' = [op |-> "CreateUser", id |-> user.ID, err |-> "none"]
  /\ UNCHANGED <<requests, objs, tokens, refreshTokens, uuid, now, ticks, ex, mus, th,
               redirects, clients, keyStore>>

\* UserInfoStore.UpdateUser
UpdateUser(user) ==
  /\ IF user.ID \notin DOMAIN users
     THEN /\ last' = [op |-> "UpdateUser", id |-> user.ID, err |-> "user not found"]
          /\ UNCHANGED users
     ELSE /\ users' = Put(users, user.ID, user)
          /\ last' = [op |-> "UpdateUser", id |-> user.ID, err |-> "none"]
  /\ UNCHANGED <<requests, objs, tokens, refreshTokens, uuid, now, ticks, ex, mus, th,
               redirects, clients, keyStore>>

\* UserInfoStore.DeleteUser
DeleteUser(userID) ==
  /\ IF userID \notin DOMAIN users
     THEN /\ last' = [op |-> "DeleteUser", id |-> userID, err |-> "user not found"]
          /\ UNCHANGED users
     ELSE /\ users' = Del(users, userID)
          /\ last' = [op |-> "DeleteUser", id |-> userID, err |-> "none"]
  /\ UNCHANGED <<requests, objs, tokens, refreshTokens, uuid, now, ticks, ex, mus, th,
               redirects, clients, keyStore>>

\* an authentication that compares the username only
AuthenticateUser_UsernameOnly(username, password) ==
  {id \in DOMAIN users : users[id].Username = username}

\* UserInfoStore.AuthenticateUser: the users the range over s.users can return,
\* those whose Username and Password both match
AuthenticateUser(username, password) ==
  {id \in DOMAIN users : users[id].Username = username /\ users[id].Password = password}

\* UserInfoStore.ValidateUser: the results it can return
ValidateUser(username, password) ==
  IF AuthenticateUser(username, password) = {}
  THEN {[err |-> "invalid credentials", userID |-> ""]}
  ELSE {[err |-> "none", userID |-> users[id].ID] : id \in AuthenticateUser(username, password)}

\* UserInfoStore.ValidateUser is called
CallValidateUser(username, password) ==
  /\ \E v \in ValidateUser(username, password) :
       last' = [op |-> "ValidateUser", username |-> username, password |-> password,
                err |-> v.err, userID |-> v.userID]
  /\ UNCHANGED <<requests, objs, tokens, refreshTokens, users, uuid, now, ticks, ex, mus, th,
                 redirects, clients, keyStore>>

\* OIDCRouter.loginPage: the form is rendered, nothing is stored
LoginPage(authRequestID) ==
  /\ last' = [op |-> "loginPage", id |-> authRequestID, status |-> 200]
  /\ UNCHANGED <<requests, objs, tokens, refreshTokens, users, uuid, now, ticks, ex, mus, th,
                 redirects, clients, keyStore>>

\* OIDCRouter.handleLogin: validate the credentials and redirect the browser to
\* the callback with the user id ValidateUser returned
HandleLogin(username, password, authRequestID) ==
  /\ IF username = "" \/ password = ""
     THEN /\ last' = [op |-> "handleLogin", id |-> authRequestID, status |-> 400]
          /\ UNCHANGED redirects
     ELSE \E v \in ValidateUser(username, password) :
            IF v.err # "none"
            THEN /\ last' = [op |-> "handleLogin", id |-> authRequestID, status |-> 401]
                 /\ UNCHANGED redirects
            ELSE IF authRequestID # EmptyID
            THEN /\ redirects' = redirects \cup {<<authRequestID, v.userID>>}
                 /\ last' = [op |-> "handleLogin", id |-> authRequestID, status |-> 302]
            ELSE /\ last' = [op |-> "handleLogin", id |-> authRequestID, status |-> 200]
                 /\ UNCHANGED redirects
  /\ UNCHANGED <<requests, objs, tokens, refreshTokens, users, uuid, now, ticks, ex, mus, th,
                 clients, keyStore>>

\* AuthRequestStore.AuthRequestByID is called
CallAuthRequestByID(id) ==
  /\ last' = [op |-> "AuthRequestByID", id |-> id, err |-> AuthRequestByID(id).err]
  /\ UNCHANGED <<requests, objs, tokens, refreshTokens, users, uuid, now, ticks, ex,
               mus, th, redirects, clients, keyStore>>

\* AuthRequestStore.AuthRequestByCode is called
CallAuthRequestByCode(code) ==
  /\ last' = [op |-> "AuthRequestByCode", code |-> code, ret |-> AuthRequestByCode(code)]
  /\ UNCHANGED <<requests, objs, tokens, refreshTokens, users, uuid, now, ticks, ex,
               mus, th, redirects, clients, keyStore>>

(* ------------------------- client and key actions --------------------- *)
\* ClientStore.CreateClient is called.  The runs of the registry draw uuids
\* for generated client ids only.
CreateClient(client) ==
  /\ client.ClientID = "" => uuid + 1 <= MaxClients
  /\ LET r == CreateClientResult(client) IN
     /\ clients' = r.clients
     /\ uuid' = r.uuid
     /\ last' = [op |-> "CreateClient", client |-> client, err |-> r.err, id |-> r.id]
  /\ UNCHANGED <<requests, objs, tokens, refreshTokens, users, now, ticks, ex, mus, th,
                 redirects, keyStore>>

\* ClientStore.UpdateClient is called
UpdateClient(client) ==
  /\ LET r == UpdateClientResult(client) IN
     /\ clients' = r.clients
     /\ last' = [op |-> "UpdateClient", client |-> client, err |-> r.err]
  /\ UNCHANGED <<requests, objs, tokens, refreshTokens, users, uuid, now, ticks, ex, mus, th,
                 redirects, keyStore>>

\* ClientStore.DeleteClient is called
DeleteClient(clientID) ==
  /\ LET r == DeleteClientResult(clientID) IN
     /\ clients' = r.clients
     /\ last' = [op |-> "DeleteClient", id |-> clientID, err |-> r.err]
  /\ UNCHANGED <<requests, objs, tokens, refreshTokens, users, uuid, now, ticks, ex, mus, th,
                 redirects, keyStore>>

\* ClientStore.AuthorizeClientIDSecret is called
CallAuthorizeClientIDSecret(clientID, clientSecret) ==
  /\ last' = [op |-> "AuthorizeClientIDSecret", id |-> clientID, secret |-> clientSecret,
              err |-> AuthorizeClientIDSecret(clientID, clientSecret)]
  /\ UNCHANGED <<requests, objs, tokens, refreshTokens, users, uuid, now, ticks, ex, mus, th,
                 redirects, clients, keyStore>>

\* ClientStore.GetClientByClientID is called
CallGetClientByClientID(clientID) ==
  /\ last' = [op |-> "GetClientByClientID", id |-> clientID,
              ret |-> GetClientByClientID(clientID)]
  /\ UNCHANGED <<requests, objs, tokens, refreshTokens, users, uuid, now, ticks, ex, mus, th,
                 redirects, clients, keyStore>>

\* OIDCStorage.SigningKey is called
CallSigningKey ==
  /\ last' = [op |-> "SigningKey", ret |-> SigningKey]
  /\ UNCHANGED <<requests, objs, tokens, refreshTokens, users, uuid, now, ticks, ex, mus, th,
                 redirects, clients, keyStore>>

\* OIDCStorage.KeySet is called
CallKeySet ==
  /\ last' = [op |-> "KeySet", ret |-> KeySet]
  /\ UNCHANGED <<requests, objs, tokens, refreshTokens, users, uuid, now, ticks, ex, mus, th,
                 redirects, clients, keyStore>>

\* OIDCStorage.GetKeyByIDAndClientID is called
CallGetKeyByIDAndClientID(keyID, clientID) ==
  /\ last' = [op |-> "GetKeyByIDAndClientID", keyID |-> keyID, clientID |-> clientID,
              ret |-> GetKeyByIDAndClientID(keyID, clientID)]
  /\ UNCHANGED <<requests, objs, tokens, refreshTokens, users, uuid, now, ticks, ex, mus, th,
                 redirects, clients, keyStore>>

\* the wall clock is seen to have advanced
Tick(d) ==
  /\ ticks < MaxTicks
  /\ now' = now + d
  /\ ticks' = ticks + 1
  /\ last' = [op |-> "tick"]
  /\ UNCHANGED <<requests, objs, tokens, refreshTokens, users, uuid, ex, mus, th,
               redirects, clients, keyStore>>

(* ------------------- the token store, statement by statement ---------- *)
\* the store variables a goroutine step of the token store leaves alone
\* besides the ones it names
TokenStepFrame == <<requests, objs, users, now, ticks, ex, redirects, clients, keyStore>>

\* the rotation calls that wait for tokensMu and have not drawn their uuids
WaitingRotations == {u \in Threads : th[u].pc = "lock"}

\* a goroutine enters CreateAccessAndRefreshTokens(request, currentRefreshToken)
\* with a stored *AuthRequest
RotateCall(t, id, cur) ==
  /\ th[t].pc = "idle"
  /\ id \in requests
  /\ uuid + 2 * (Cardinality(WaitingRotations) + 1) <= MaxUUID
  /\ th' = [th EXCEPT ![t] = [IdleThread EXCEPT !.pc = "lock",
                                !.op = "CreateAccessAndRefreshTokens",
                                !.id = id, !.cur = cur]]
  /\ UNCHANGED <<tokens, refreshTokens, uuid, mus, last>>
  /\ UNCHANGED TokenStepFrame

\* s.tokensMu.Lock(), then the two uuid.New() calls
RotateLock(t) ==
  /\ th[t].pc = "lock"
  /\ CanLock(mus.tokensMu)
  /\ mus' = [mus EXCEPT !.tokensMu.w = t]
  /\ uuid' = uuid + 2
  /\ th' = [th EXCEPT ![t].pc = "putAccess", ![t].at = uuid + 1, ![t].nrt = uuid + 2,
                      ![t].stored = th[t].cur \in DOMAIN refreshTokens]
  /\ UNCHANGED <<tokens, refreshTokens, last>>
  /\ UNCHANGED TokenStepFrame

\* s.tokens[accessTokenID] = accessToken
RotatePutAccess(t) ==
  /\ th[t].pc = "putAccess"
  /\ LET req == objs[th[t].id] IN
     tokens' = Put(tokens, th[t].at,
                   MkToken(th[t].at, req.UserID, req.ClientID, req.Scopes,
                           now, now + AccessTTL, "access", th[t].nrt))
  /\ th' = [th EXCEPT ![t].pc = "putRefresh"]
  /\ UNCHANGED <<refreshTokens, uuid, mus, last>>
  /\ UNCHANGED TokenStepFrame

\* s.tokens[refreshTokenID] = refreshToken
RotatePutRefresh(t) ==
  /\ th[t].pc = "putRefresh"
  /\ LET req == objs[th[t].id] IN
     tokens' = Put(tokens, th[t].nrt,
                   MkToken(th[t].nrt, req.UserID, req.ClientID, req.Scopes,
                           now, now + RefreshTTL, "refresh", EmptyID))
  /\ th' = [th EXCEPT ![t].pc = "putIndex"]
  /\ UNCHANGED <<refreshTokens, uuid, mus, last>>
  /\ UNCHANGED TokenStepFrame

\* s.refreshTokens[refreshTokenID] = refreshToken
RotatePutIndex(t) ==
  /\ th[t].pc = "putIndex"
  /\ refreshTokens' = Put(refreshTokens, th[t].nrt, tokens[th[t].nrt])
  /\ th' = [th EXCEPT ![t].pc = "removeOld"]
  /\ UNCHANGED <<tokens, uuid, mus, last>>
  /\ UNCHANGED TokenStepFrame

\* if currentRefreshToken != "" { if oldToken, exists := ...; exists {
\*   delete(s.tokens, oldToken.ID)
RotateRemoveOld(t) ==
  /\ th[t].pc = "removeOld"
  /\ IF th[t].cur # EmptyID /\ th[t].cur \in DOMAIN refreshTokens
     THEN /\ tokens' = Del(tokens, refreshTokens[th[t].cur].ID)
          /\ th' = [th EXCEPT ![t].pc = "delIndex"]
     ELSE /\ UNCHANGED tokens
          /\ th' = [th EXCEPT ![t].pc = "unlock"]
  /\ UNCHANGED <<refreshTokens, uuid, mus, last>>
  /\ UNCHANGED TokenStepFrame

\* delete(s.refreshTokens, currentRefreshToken)
RotateDelIndex(t) ==
  /\ th[t].pc = "delIndex"
  /\ refreshTokens' = Del(refreshTokens, th[t].cur)
  /\ th' = [th EXCEPT ![t].pc = "unlock"]
  /\ UNCHANGED <<tokens, uuid, mus, last>>
  /\ UNCHANGED TokenStepFrame

\* the deferred s.tokensMu.Unlock() and the return
RotateUnlock(t) ==
  /\ th[t].pc = "unlock"
  /\ mus' = [mus EXCEPT !.tokensMu.w = 0]
  /\ last' = [op |-> "CreateAccessAndRefreshTokens", kind |-> "AuthRequest",
              cur |-> th[t].cur, stored |-> th[t].stored, err |-> "none",
              accessTokenID |-> th[t].at, newRefreshTokenID |-> th[t].nrt,
              expiration |-> tokens[th[t].at].ExpiresAt]
  /\ th' = [th EXCEPT ![t] = IdleThread]
  /\ UNCHANGED <<tokens, refreshTokens, uuid>>
  /\ UNCHANGED TokenStepFrame

\* the read-only calls on the refresh-token index
ReadOps == {"GetRefreshTokenInfo", "TokenRequestByRefreshToken"}

\* a goroutine enters GetRefreshTokenInfo(clientID, token) or
\* TokenRequestByRefreshToken(token)
ReadCall(t, op, clientID, token) ==
  /\ th[t].pc = "idle"
  /\ th' = [th EXCEPT ![t] = [IdleThread EXCEPT !.pc = "rlock", !.op = op,
                                !.clientID = clientID, !.cur = token]]
  /\ UNCHANGED <<tokens, refreshTokens, uuid, mus, last>>
  /\ UNCHANGED TokenStepFrame

\* s.tokensMu.RLock(), then the body of the read-only call: the lookup in
\* s.refreshTokens and its checks
ReadRLock(t) ==
  /\ th[t].pc = "rlock"
  /\ CanRLock(mus.tokensMu)
  /\ mus' = [mus EXCEPT !.tokensMu.r = @ \cup {t}]
  /\ th' = [th EXCEPT ![t].pc = "runlock",
                      ![t].ret = IF th[t].op = "GetRefreshTokenInfo"
                                 THEN GetRefreshTokenInfo(th[t].clientID, th[t].cur).err
                                 ELSE TokenRequestByRefreshToken(th[t].cur).err]
  /\ UNCHANGED <<tokens, refreshTokens, uuid, last>>
  /\ UNCHANGED TokenStepFrame

\* the deferred s.tokensMu.RUnlock() and the return to the engine, which
\* answers the client from what was read
ReadRUnlock(t) ==
  /\ th[t].pc = "runlock"
  /\ mus' = [mus EXCEPT !.tokensMu.r = @ \ {t}]
  /\ th' = [th EXCEPT ![t] = IdleThread]
  /\ UNCHANGED <<tokens, refreshTokens, uuid, last>>
  /\ UNCHANGED TokenStepFrame

(* -------- the authorization request store, statement by statement ----- *)
\* the store variables a goroutine step of the request store leaves alone
\* besides the ones it names
RequestStepFrame ==
  <<tokens, refreshTokens, users, now, ticks, ex, redirects, clients, keyStore, last>>

\* a goroutine enters OIDCStorage.CreateAuthRequest: uuid.New() and the new
\* request object, which no map refers to yet
NewRequestCall(t, clientID, scopes, userID) ==
  /\ th[t].pc = "idle"
  /\ uuid + 1 <= MaxUUID
  /\ Cardinality(requests) + Cardinality({u \in Threads : th[u].op = "CreateAuthRequest"})
       < MaxRequests
  /\ uuid' = uuid + 1
  /\ objs' = Put(objs, uuid + 1,
                  NewAuthRequest(uuid + 1, InboundRequest(clientID, scopes), userID))
  /\ th' = [th EXCEPT ![t] = [IdleThread EXCEPT !.pc = "newLock", !.op = "CreateAuthRequest",
                                !.id = uuid + 1]]
  /\ UNCHANGED <<requests, mus>>
  /\ UNCHANGED RequestStepFrame

\* s.authRequestStore.mu.Lock()
NewRequestLock(t) ==
  /\ th[t].pc = "newLock"
  /\ CanLock(mus.mu)
  /\ mus' = [mus EXCEPT !.mu.w = t]
  /\ th' = [th EXCEPT ![t].pc = "newPut"]
  /\ UNCHANGED <<requests, objs, uuid>>
  /\ UNCHANGED RequestStepFrame

\* s.authRequestStore.requests[id] = request, then mu.Unlock() and the return
NewRequestPut(t) ==
  /\ th[t].pc = "newPut"
  /\ requests' = requests \cup {th[t].id}
  /\ mus' = [mus EXCEPT !.mu.w = 0]
  /\ th' = [th EXCEPT ![t] = IdleThread]
  /\ UNCHANGED <<objs, uuid>>
  /\ UNCHANGED RequestStepFrame

\* a goroutine enters loginCallback with both query parameters present
CallbackCall(t, authRequestID, userID) ==
  /\ th[t].pc = "idle"
  /\ authRequestID # EmptyID /\ userID # ""
  /\ th' = [th EXCEPT ![t] = [IdleThread EXCEPT !.pc = "cbLookup", !.op = "loginCallback",
                                !.id = authRequestID, !.userID = userID]]
  /\ UNCHANGED <<requests, objs, uuid, mus>>
  /\ UNCHANGED RequestStepFrame

\* o.Storage.AuthRequestByID: mu.RLock() and the map lookup
CallbackLookup(t) ==
  /\ th[t].pc = "cbLookup"
  /\ CanRLock(mus.mu)
  /\ mus' = [mus EXCEPT !.mu.r = @ \cup {t}]
  /\ th' = [th EXCEPT ![t].pc = "cbRUnlock", ![t].ret = AuthRequestByID(th[t].id).err]
  /\ UNCHANGED <<requests, objs, uuid>>
  /\ UNCHANGED RequestStepFrame

\* the deferred mu.RUnlock() of AuthRequestByID; the callback answers
\* "Invalid auth request" if the lookup failed
CallbackRUnlock(t) ==
  /\ th[t].pc = "cbRUnlock"
  /\ mus' = [mus EXCEPT !.mu.r = @ \ {t}]
  /\ th' = [th EXCEPT ![t] = IF th[t].ret = "none" THEN [@ EXCEPT !.pc = "cbSetUser"]
                             ELSE IdleThread]
  /\ UNCHANGED <<requests, objs, uuid>>
  /\ UNCHANGED RequestStepFrame

\* ar.UserID = userID
CallbackSetUserID(t) ==
  /\ th[t].pc = "cbSetUser"
  /\ objs' = [objs EXCEPT ![th[t].id].UserID = th[t].userID]
  /\ th' = [th EXCEPT ![t].pc = "cbSetDone"]
  /\ UNCHANGED <<requests, uuid, mus>>
  /\ UNCHANGED RequestStepFrame

\* ar.IsDone = true, then the hand-over to op.AuthorizeCallback
CallbackSetDone(t) ==
  /\ th[t].pc = "cbSetDone"
  /\ objs' = [objs EXCEPT ![th[t].id].IsDone = TRUE]
  /\ th' = [th EXCEPT ![t] = IdleThread]
  /\ UNCHANGED <<requests, uuid, mus>>
  /\ UNCHANGED RequestStepFrame

\* a goroutine enters AuthRequestStore.SaveAuthCode(id, code)
SaveCodeCall(t, id) ==
  /\ th[t].pc = "idle"
  /\ th' = [th EXCEPT ![t] = [IdleThread EXCEPT !.pc = "sacLock", !.op = "SaveAuthCode",
                                !.id = id]]
  /\ UNCHANGED <<requests, objs, uuid, mus>>
  /\ UNCHANGED RequestStepFrame

\* s.mu.Lock() and the map lookup
SaveCodeLock(t) ==
  /\ th[t].pc = "sacLock"
  /\ CanLock(mus.mu)
  /\ mus' = [mus EXCEPT !.mu.w = t]
  /\ th' = [th EXCEPT ![t].pc = IF th[t].id \in requests THEN "sacSetDone" ELSE "sacUnlock",
                      ![t].ret = IF th[t].id \in requests THEN "none"
                                 ELSE "auth request not found"]
  /\ UNCHANGED <<requests, objs, uuid>>
  /\ UNCHANGED RequestStepFrame

\* request.IsDone = true
SaveCodeSetDone(t) ==
  /\ th[t].pc = "sacSetDone"
  /\ objs' = [objs EXCEPT ![th[t].id].IsDone = TRUE]
  /\ th' = [th EXCEPT ![t].pc = "sacUnlock"]
  /\ UNCHANGED <<requests, uuid, mus>>
  /\ UNCHANGED RequestStepFrame

\* the deferred s.mu.Unlock() and the return
SaveCodeUnlock(t) ==
  /\ th[t].pc = "sacUnlock"
  /\ mus' = [mus EXCEPT !.mu.w = 0]
  /\ th' = [th EXCEPT ![t] = IdleThread]
  /\ UNCHANGED <<requests, objs, uuid>>
  /\ UNCHANGED RequestStepFrame

(* ---------------- every store operation, lock by lock ----------------- *)
\* the operations of the four stores: the sync.RWMutex each one takes, whether
\* it takes it with Lock() or with RLock(), and the id it is called with (a
\* request id, a token id, or none).  GetUserBySubject and ValidateUser take
\* no lock of their own: theirs is the one of GetUserByID and AuthenticateUser
StoreOps ==
  [GetClientByClientID          |-> [mu |-> "clientMu", write |-> FALSE, id |-> EmptyID],
   AuthorizeClientIDSecret      |-> [mu |-> "clientMu", write |-> FALSE, id |-> EmptyID],
   CreateClient                 |-> [mu |-> "clientMu", write |-> TRUE, id |-> EmptyID],
   UpdateClient                 |-> [mu |-> "clientMu", write |-> TRUE, id |-> EmptyID],
   DeleteClient                 |-> [mu |-> "clientMu", write |-> TRUE, id |-> EmptyID],
   ListClients                  |-> [mu |-> "clientMu", write |-> FALSE, id |-> EmptyID],
   GetUserByID                  |-> [mu |-> "userMu", write |-> FALSE, id |-> EmptyID],
   GetUserBySubject             |-> [mu |-> "userMu", write |-> FALSE, id |-> EmptyID],
   AuthenticateUser             |-> [mu |-> "userMu", write |-> FALSE, id |-> EmptyID],
   ValidateUser                 |-> [mu |-> "userMu", write |-> FALSE, id |-> EmptyID],
   ListUsers                    |-> [mu |-> "userMu", write |-> FALSE, id |-> EmptyID],
   CreateUser                   |-> [mu |-> "userMu", write |-> TRUE, id |-> EmptyID],
   UpdateUser                   |-> [mu |-> "userMu", write |-> TRUE, id |-> EmptyID],
   DeleteUser                   |-> [mu |-> "userMu", write |-> TRUE, id |-> EmptyID],
   AuthRequestByID              |-> [mu |-> "mu", write |-> FALSE, id |-> 1],
   AuthRequestByCode            |-> [mu |-> "mu", write |-> FALSE, id |-> 1],
   SaveAuthCode                 |-> [mu |-> "mu", write |-> TRUE, id |-> 1],
   DeleteAuthRequest            |-> [mu |-> "mu", write |-> TRUE, id |-> 1],
   CreateAccessToken            |-> [mu |-> "tokensMu", write |-> TRUE, id |-> 1],
   CreateAccessAndRefreshTokens |-> [mu |-> "tokensMu", write |-> TRUE, id |-> 1],
   TokenRequestByRefreshToken   |-> [mu |-> "tokensMu", write |-> FALSE, id |-> 3],
   TerminateSession             |-> [mu |-> "tokensMu", write |-> TRUE, id |-> EmptyID],
   RevokeToken                  |-> [mu |-> "tokensMu", write |-> TRUE, id |-> 2],
   GetRefreshTokenInfo          |-> [mu |-> "tokensMu", write |-> FALSE, id |-> 3]]

\* the operations that draw uuids for the tokens they store
CreationOps == {"CreateAccessToken", "CreateAccessAndRefreshTokens"}

\* the body of a store operation, run under its lock: the error it returns and
\* the maps it has written
StoreOpResult(op, id) ==
  CASE op = "GetClientByClientID" -> [err |-> GetClientByClientID("demo-client").err]
    [] op = "AuthorizeClientIDSecret" ->
         [err |-> AuthorizeClientIDSecret("demo-client", "demo-secret")]
    [] op = "CreateClient" ->
         [err |-> "none", clients |-> CreateClientResult(DefaultClient).clients]
    [] op = "UpdateClient" -> UpdateClientResult(DefaultClient)
    [] op = "DeleteClient" -> DeleteClientResult("demo-client")
    [] op \in {"ListClients", "ListUsers"} -> [err |-> "none"]
    [] op \in {"GetUserByID", "GetUserBySubject"} -> [err |-> GetUserByID("user1").err]
    [] op \in {"AuthenticateUser", "ValidateUser"} ->
         [err |-> IF AuthenticateUser("demo@example.com", "password123") = {}
                  THEN "invalid credentials" ELSE "none"]
    [] op = "CreateUser" ->
         IF "user1" \in DOMAIN users THEN [err |-> "user already exists"]
         ELSE [err |-> "none", users |-> Put(users, "user1", SeedUsers["user1"])]
    [] op = "UpdateUser" ->
         IF "user1" \notin DOMAIN users THEN [err |-> "user not found"]
         ELSE [err |-> "none", users |-> Put(users, "user1", SeedUsers["user1"])]
    [] op = "DeleteUser" ->
         IF "user1" \notin DOMAIN users THEN [err |-> "user not found"]
         ELSE [err |-> "none", users |-> Del(users, "user1")]
    [] op = "AuthRequestByID" -> [err |-> AuthRequestByID(id).err]
    [] op = "AuthRequestByCode" -> [err |-> AuthRequestByCode(id).err]
    [] op = "SaveAuthCode" -> SaveAuthCodeResult(id, id)
    [] op = "DeleteAuthRequest" -> DeleteAuthRequestResult(id)
    [] op = "CreateAccessToken" ->
         LET r == CreateAccessToken(AuthTokenRequest(id)) IN
         [err |-> r.err, tokens |-> r.tokens, uuid |-> r.uuid]
    [] op = "CreateAccessAndRefreshTokens" ->
         LET r == CreateAccessAndRefreshTokens(AuthTokenRequest(id), EmptyID) IN
         [err |-> r.err, tokens |-> r.tokens, refreshTokens |-> r.refreshTokens,
          uuid |-> r.uuid]
    [] op = "TokenRequestByRefreshToken" -> [err |-> TokenRequestByRefreshToken(id).err]
    [] op = "TerminateSession" -> TerminateSession("user1", "demo-client")
    [] op = "RevokeToken" -> RevokeToken(id, "", "demo-client")
    [] op = "GetRefreshTokenInfo" -> [err |-> GetRefreshTokenInfo("demo-client", id).err]

\* what an operation body leaves in a map it may have written
Written(r, name, old) == IF name \in DOMAIN r THEN r[name] ELSE old

\* the first statement of every store operation: Lock() or RLock() on the
\* mutex of its store
LockCalls ==
  {[mu |-> StoreOps[op].mu, write |-> StoreOps[op].write] : op \in DOMAIN StoreOps}

\* a goroutine enters a store operation and calls Lock() or RLock().  Nothing
\* reads which operation of the store it is before the lock is granted, so
\* the goroutine is recorded by the mutex it waits for: clientID names the
\* mutex, stored tells a Lock() from an RLock()
StoreCall(t, c) ==
  /\ th[t].pc = "idle"
  /\ th' = [th EXCEPT ![t] = [IdleThread EXCEPT !.pc = "opLock", !.clientID = c.mu,
                                !.stored = c.write]]
  /\ UNCHANGED <<requests, objs, tokens, refreshTokens, users, uuid, now, ticks, ex, mus,
                 redirects, clients, keyStore, last>>

\* Lock() or RLock() returns to operation op, and its body runs up to the
\* return statement it takes.  A token creation is handed a *AuthRequest
StoreLock(t, op) ==
  /\ th[t].pc = "opLock"
  /\ StoreOps[op].mu = th[t].clientID /\ StoreOps[op].write = th[t].stored
  /\ op \in CreationOps => StoreOps[op].id \in DOMAIN objs /\ uuid + 2 <= MaxUUID
  /\ LET o == StoreOps[op]
         r == StoreOpResult(op, o.id) IN
     /\ IF o.write THEN CanLock(mus[o.mu]) ELSE CanRLock(mus[o.mu])
     /\ mus' = [mus EXCEPT ![o.mu] = IF o.write THEN [@ EXCEPT !.w = t]
                                     ELSE [@ EXCEPT !.r = @ \cup {t}]]
     /\ requests' = Written(r, "requests", requests)
     /\ objs' = Written(r, "objs", objs)
     /\ tokens' = Written(r, "tokens", tokens)
     /\ refreshTokens' = Written(r, "refreshTokens", refreshTokens)
     /\ users' = Written(r, "users", users)
     /\ clients' = Written(r, "clients", clients)
     /\ uuid' = Written(r, "uuid", uuid)
     /\ th' = [th EXCEPT ![t].pc = "opUnlock", ![t].ret = r.err]
  /\ UNCHANGED <<now, ticks, ex, redirects, keyStore, last>>

\* a return that leaves the mutex locked when the operation fails
StoreUnlock_KeepsOnError(t) ==
  /\ th[t].pc = "opUnlock"
  /\ mus' = IF th[t].ret # "none" THEN mus
            ELSE [mus EXCEPT ![th[t].clientID] = IF th[t].stored THEN [@ EXCEPT !.w = 0]
                                                 ELSE [@ EXCEPT !.r = @ \ {t}]]
  /\ th' = [th EXCEPT ![t] = [IdleThread EXCEPT !.pc = "done"]]
  /\ UNCHANGED <<requests, objs, tokens, refreshTokens, users, uuid, now, ticks, ex,
                 redirects, clients, keyStore, last>>

\* the deferred Unlock() or RUnlock() of the mutex the operation took, and the
\* return; the goroutine ends with the call it served
StoreUnlock(t) ==
  /\ th[t].pc = "opUnlock"
  /\ mus' = [mus EXCEPT ![th[t].clientID] = IF th[t].stored THEN [@ EXCEPT !.w = 0]
                                            ELSE [@ EXCEPT !.r = @ \ {t}]]
  /\ th' = [th EXCEPT ![t] = [IdleThread EXCEPT !.pc = "done"]]
  /\ UNCHANGED <<requests, objs, tokens, refreshTokens, users, uuid, now, ticks, ex,
                 redirects, clients, keyStore, last>>

\* the steps goroutine t takes once it is inside a store operation
GoroutineStep(t) ==
  \/ \E op \in DOMAIN StoreOps : StoreLock(t, op)
  \/ StoreUnlock(t)
  \/ NewRequestLock(t)
  \/ NewRequestPut(t)

(* ------------- token requests served side by side: code exchange ------ *)
\* the variables a step of a token request leaves alone besides the ones it names
GrantFrame == <<users, now, ticks, ex, redirects, clients, keyStore>>

\* the exchanges that have not yet drawn the uuids of their tokens
PendingExchanges == {u \in Threads : th[u].pc \in {"byCode", "create"}}

\* a goroutine starts the exchange of a code issued for a stored request
ExchangeCall(t, code) ==
  /\ th[t].pc = "idle"
  /\ \E id \in requests : code \in CodesFor(id)
  /\ uuid + 2 * (Cardinality(PendingExchanges) + 1) <= MaxUUID
  /\ th' = [th EXCEPT ![t] = [IdleThread EXCEPT !.pc = "byCode", !.op = "Exchange",
                                !.code = code]]
  /\ UNCHANGED <<requests, objs, tokens, refreshTokens, uuid, mus, last>>
  /\ UNCHANGED GrantFrame

\* AuthRequestByCode(code), under the request store's read lock
ExchangeByCode(t) ==
  /\ th[t].pc = "byCode"
  /\ CanRLock(mus.mu)
  /\ LET r == AuthRequestByCode(th[t].code) IN
     /\ th' = [th EXCEPT ![t] =
                 IF r.err = "none" THEN [@ EXCEPT !.pc = "create", !.id = r.ptr]
                 ELSE [@ EXCEPT !.pc = "done", !.ret = r.err]]
     /\ last' = [op |-> "AuthRequestByCode", code |-> th[t].code, ret |-> r]
  /\ UNCHANGED <<requests, objs, tokens, refreshTokens, uuid, mus>>
  /\ UNCHANGED GrantFrame

\* CreateAccessAndRefreshTokens(request, ""), under tokensMu
ExchangeCreate(t) ==
  /\ th[t].pc = "create"
  /\ CanLock(mus.tokensMu)
  /\ LET r == CreateAccessAndRefreshTokens(AuthTokenRequest(th[t].id), EmptyID) IN
     /\ tokens' = r.tokens
     /\ refreshTokens' = r.refreshTokens
     /\ uuid' = r.uuid
     /\ th' = [th EXCEPT ![t].pc = "remove", ![t].at = r.accessTokenID,
                         ![t].nrt = r.newRefreshTokenID]
     /\ last' = CreateRecord(AuthTokenRequest(th[t].id), EmptyID, r)
  /\ UNCHANGED <<requests, objs, mus>>
  /\ UNCHANGED GrantFrame

\* DeleteAuthRequest(request.GetID()), under the request store's lock.  The
\* goroutines that looked the request up keep their pointer to it.
ExchangeRemove(t) ==
  /\ th[t].pc = "remove"
  /\ CanLock(mus.mu)
  /\ LET r == DeleteAuthRequestResult(objs[th[t].id].ID) IN
     /\ requests' = r.requests
     /\ th' = [th EXCEPT ![t].pc = "done", ![t].ret = r.err]
     /\ last' = [op |-> "DeleteAuthRequest", id |-> objs[th[t].id].ID, err |-> r.err]
  /\ UNCHANGED <<objs, tokens, refreshTokens, uuid, mus>>
  /\ UNCHANGED GrantFrame

\* the token response or the error is written and the goroutine ends
ExchangeReturn(t) ==
  /\ th[t].pc = "done"
  /\ th[t].op = "Exchange"
  /\ th' = [th EXCEPT ![t] = IdleThread]
  /\ UNCHANGED <<requests, objs, tokens, refreshTokens, uuid, mus, last>>
  /\ UNCHANGED GrantFrame

(* --------------- token requests served side by side: refresh ---------- *)
\* the uuids drawn in the refresh runs
RefreshUUIDs == 1..MaxRefreshUUID

\* the refreshes that have not yet drawn the uuids of their tokens
PendingRefreshes == {u \in Threads : th[u].pc \in {"info", "lock"}}

\* a goroutine starts a refresh: the client presents refreshToken, the id of a
\* token it was given, and the tokens are made for the stored request id
RefreshCall(t, clientID, refreshToken, id) ==
  /\ th[t].pc = "idle"
  /\ id \in requests
  /\ refreshToken \in DOMAIN tokens
  /\ uuid + 2 * (Cardinality(PendingRefreshes) + 1) <= MaxRefreshUUID
  /\ th' = [th EXCEPT ![t] = [IdleThread EXCEPT !.pc = "info", !.op = "GetRefreshTokenInfo",
                                !.clientID = clientID, !.cur = refreshToken, !.id = id]]
  /\ UNCHANGED <<tokens, refreshTokens, uuid, mus, last>>
  /\ UNCHANGED TokenStepFrame

\* GetRefreshTokenInfo(clientID, refreshToken), under tokensMu's read lock;
\* when it succeeds the goroutine goes on to
\* CreateAccessAndRefreshTokens(request, refreshToken)
RefreshInfo(t) ==
  /\ th[t].pc = "info"
  /\ CanRLock(mus.tokensMu)
  /\ LET r == GetRefreshTokenInfo(th[t].clientID, th[t].cur) IN
     th' = [th EXCEPT ![t] =
              IF r.err = "none"
              THEN [@ EXCEPT !.pc = "lock", !.op = "CreateAccessAndRefreshTokens"]
              ELSE IdleThread]
  /\ UNCHANGED <<tokens, refreshTokens, uuid, mus, last>>
  /\ UNCHANGED TokenStepFrame

(* ---------------------------- specification --------------------------- *)
\* the inbound authorization requests of the token-store runs: client id,
\* scopes, and the subject the engine already knows
TokenRunRequests ==
  {<<"demo-client", <<"openid">>, "user1">>,
   <<"demo-client", <<"openid", "profile">>, "user1">>,
   <<"other-client", <<"openid", "email">>, "admin1">>}

\* the inbound authorization requests of the flow runs: the subject may still be unknown
FlowRunRequests ==
  {<<"demo-client", <<"openid", "profile">>, "">>,
   <<"other-client", <<"openid">>, "user1">>}

\* the user ids the user store is asked about
UserIDs == DemoUserIDs \cup {"eve1", "nobody"}
\* the scope lists claims are asked for
ClaimScopeLists ==
  {<<>>, <<"openid">>, <<"profile">>, <<"email">>, <<"openid", "profile", "email">>}

\* the user store and the claims it hands out
NextUsers ==
  \/ \E u \in UserInputs : CreateUser(u)
  \/ \E u \in UserInputs : UpdateUser(u)
  \/ \E id \in UserIDs : DeleteUser(id)
  \/ \E id \in UserIDs, c \in ClientIDs, s \in ClaimScopeLists :
       CallGetPrivateClaimsFromScopes(id, c, s)

\* the token store driven call by call
NextTokens ==
  \/ \E r \in TokenRunRequests : CreateAuthRequest(r[1], r[2], r[3])
  \/ \E id \in UUIDs, cur \in {EmptyID} \cup UUIDs : IssueTokens(id, cur)
  \/ \E c \in ClientIDs, t \in UUIDs : CallGetRefreshTokenInfo(c, t)
  \/ \E t \in UUIDs, a \in IntrospectArgs : CallSetIntrospectionFromToken(t, a[1], a[2])
  \/ \E d \in TickSteps : Tick(d)

\* the userinfo endpoint over the tokens issued
NextUserinfo ==
  \/ \E r \in TokenRunRequests : CreateAuthRequest(r[1], r[2], r[3])
  \/ \E id \in UUIDs, cur \in {EmptyID} \cup UUIDs : IssueTokens(id, cur)
  \/ \E t \in UUIDs, u \in UserIDs : CallSetUserinfoFromToken(t, u)

\* the userID query parameters the callback is requested with
CallbackUserIDs == {""} \cup LoginUserIDs

\* the authorization request store driven call by call
NextRequests ==
  \/ \E r \in FlowRunRequests : CreateAuthRequest(r[1], r[2], r[3])
  \/ \E id \in UUIDs, u \in CallbackUserIDs : LoginCallback(id, u)
  \/ \E id \in UUIDs : CallAuthRequestByID(id)
  \/ \E id \in UUIDs : \E code \in CodesFor(id) : SaveAuthCode(id, code)
  \/ \E id \in UUIDs : DeleteAuthRequest(id)
  \/ \E code \in Codes : CallAuthRequestByCode(code)

\* the protocol engine's flows over the request store and the token store
NextFlows ==
  \/ \E r \in FlowRunRequests : CreateAuthRequest(r[1], r[2], r[3])
  \/ \E id \in UUIDs, u \in LoginUserIDs : LoginCallback(id, u)
  \/ \E p \in Procs, id \in UUIDs : \E code \in CodesFor(id) : IssueCode(p, id, code)
  \/ \E p \in Procs : ExchangeLookup(p)
  \/ \E p \in Procs : ExchangeIssue(p)
  \/ \E p \in Procs : ExchangeDelete(p)
  \/ \E p \in Procs : ExchangeAgain(p)
  \/ \E p \in Procs, rt \in UUIDs : RefreshLookup(p, rt)
  \/ \E p \in Procs : RefreshIssue(p)
  \/ \E p \in Procs : Finish(p)

\* the inbound authorization requests of the session runs: two subjects, each
\* with its own client
SessionRunRequests ==
  {<<"demo-client", <<"openid">>, "user1">>,
   <<"other-client", <<"openid", "email">>, "admin1">>}

\* the subject and client id pairs a session is ended for
SessionArgs == {<<"user1", "demo-client">>, <<"user1", "other-client">>}

\* issuance, rotation, revocation and session termination over the token store
NextSessions ==
  \/ \E r \in SessionRunRequests : CreateAuthRequest(r[1], r[2], r[3])
  \/ \E id \in UUIDs : DeleteAuthRequest(id)
  \/ \E id \in UUIDs, cur \in {EmptyID} \cup DOMAIN refreshTokens : IssueTokens(id, cur)
  \/ \E id \in UUIDs : CallCreateAccessToken(id)
  \/ \E t \in DOMAIN tokens, a \in RevokeArgs : CallRevokeToken(t, a[1], a[2])
  \/ \E a \in SessionArgs : CallTerminateSession(a[1], a[2])

\* issuance, rotation and revocation over the token store as the clock advances
NextRevocation ==
  \/ \E r \in SessionRunRequests : CreateAuthRequest(r[1], r[2], r[3])
  \/ \E id \in UUIDs, cur \in {EmptyID} \cup DOMAIN refreshTokens : IssueTokens(id, cur)
  \/ \E t \in UUIDs, a \in RevokeArgs : CallRevokeToken(t, a[1], a[2])
  \/ \E d \in TickSteps : Tick(d)

\* rotations and read-only calls of the token store running side by side,
\* one statement at a time
NextRotation ==
  \/ CreateAuthRequest("demo-client", <<"openid">>, "user1")
  \/ \E t \in Threads, id \in UUIDs, cur \in {EmptyID} \cup DOMAIN refreshTokens :
       RotateCall(t, id, cur)
  \/ \E t \in Threads : RotateLock(t)
  \/ \E t \in Threads : RotatePutAccess(t)
  \/ \E t \in Threads : RotatePutRefresh(t)
  \/ \E t \in Threads : RotatePutIndex(t)
  \/ \E t \in Threads : RotateRemoveOld(t)
  \/ \E t \in Threads : RotateDelIndex(t)
  \/ \E t \in Threads : RotateUnlock(t)
  \/ \E t \in Threads, op \in ReadOps, token \in DOMAIN refreshTokens :
       ReadCall(t, op, "demo-client", token)
  \/ \E t \in Threads : ReadRLock(t)
  \/ \E t \in Threads : ReadRUnlock(t)

\* request creation, login callbacks and SaveAuthCode calls running side by
\* side, one statement at a time
NextCallback ==
  \/ \E t \in Threads : NewRequestCall(t, "demo-client", <<"openid">>, "")
  \/ \E t \in Threads : NewRequestLock(t)
  \/ \E t \in Threads : NewRequestPut(t)
  \/ \E t \in Threads, id \in 1..uuid, u \in LoginUserIDs : CallbackCall(t, id, u)
  \/ \E t \in Threads : CallbackLookup(t)
  \/ \E t \in Threads : CallbackRUnlock(t)
  \/ \E t \in Threads : CallbackSetUserID(t)
  \/ \E t \in Threads : CallbackSetDone(t)
  \/ \E t \in Threads, id \in 1..uuid : SaveCodeCall(t, id)
  \/ \E t \in Threads : SaveCodeLock(t)
  \/ \E t \in Threads : SaveCodeSetDone(t)
  \/ \E t \in Threads : SaveCodeUnlock(t)

\* the username and password pairs the login form is posted with
LoginInputs == {<<"demo@example.com", "password123">>, <<"admin@example.com", "wrong">>,
                <<"", "admin123">>}

\* the login page, the login handler and the login callback, each requested
\* with any parameters
NextLogin ==
  \/ \E r \in FlowRunRequests : CreateAuthRequest(r[1], r[2], r[3])
  \/ \E id \in {EmptyID} \cup UUIDs : LoginPage(id)
  \/ \E c \in LoginInputs, id \in {EmptyID} \cup UUIDs : HandleLogin(c[1], c[2], id)
  \/ \E id \in {EmptyID} \cup UUIDs, u \in CallbackUserIDs : LoginCallback(id, u)

\* the client ids the registry calls name: none, the default client, another
\* name and the generated ids
RegistryIDs == {"", "demo-client", "other-client"} \cup {UUIDString(n) : n \in 1..MaxClients}

\* the secrets presented or registered
ClientSecrets == {"demo-secret", "new-secret"}

\* the client descriptors handed to CreateClient and UpdateClient
ClientInputs ==
  {MkClient(id, secret, d[1], d[2]) :
     id \in RegistryIDs, secret \in ClientSecrets,
     d \in {<<DefaultClient.ClientRedirectURIs, DefaultClient.ClientGrantTypes>>,
            <<(<<"http://localhost:9000/callback">>), (<<"authorization_code">>)>>}}

\* registration, update, removal and authentication of clients
NextClients ==
  \/ \E c \in ClientInputs : CreateClient(c)
  \/ \E c \in ClientInputs : UpdateClient(c)
  \/ \E id \in RegistryIDs : DeleteClient(id)
  \/ \E id \in RegistryIDs, s \in ClientSecrets : CallAuthorizeClientIDSecret(id, s)
  \/ \E id \in RegistryIDs : CallGetClientByClientID(id)

\* the key ids a verifier asks for: the served one, none, and ids of tokens
KeyIDs == {NewKeys.keyID, ""} \cup {UUIDString(n) : n \in UUIDs}

\* token issuance and the key calls that serve its signatures
NextKeys ==
  \/ \E r \in SessionRunRequests : CreateAuthRequest(r[1], r[2], r[3])
  \/ \E id \in UUIDs, cur \in {EmptyID} \cup DOMAIN refreshTokens : IssueTokens(id, cur)
  \/ CallSigningKey
  \/ CallKeySet
  \/ \E k \in KeyIDs, c \in ClientIDs : CallGetKeyByIDAndClientID(k, c)

\* token creation with the requests the engine can hand in: stored
\* authorization requests and requests built from refresh tokens
NextIssuance ==
  \/ \E r \in SessionRunRequests : CreateAuthRequest(r[1], r[2], r[3])
  \/ \E id \in UUIDs : DeleteAuthRequest(id)
  \/ \E id \in UUIDs, cur \in {EmptyID} \cup DOMAIN refreshTokens : IssueTokens(id, cur)
  \/ \E id \in UUIDs : CallCreateAccessToken(id)
  \/ \E r \in RefreshRequests : CreateAccessTokenFor(r)
  \/ \E r \in RefreshRequests, cur \in {EmptyID} \cup DOMAIN refreshTokens :
       IssueTokensFor(r, cur)

\* the inbound authorization requests of the creation runs: with and without
\* a PKCE code challenge, with the default and with another response mode
CreationRequests ==
  {MkInbound(c, "http://localhost:3000/callback", <<"openid", "profile">>, "code", m,
             "state-2", "nonce-2", ch) :
     c \in ClientIDs, m \in {"", "form_post"},
     ch \in {<<"", "">>, <<"E9Melhoa2OwvFrEMTJguCHaoeK1t8URWbuGJSstw-cM", "S256">>}}

\* authorization requests are created, read back and deleted
NextCreation ==
  \/ \E a \in CreationRequests, u \in {""} \cup LoginUserIDs : CreateAuthRequestFrom(a, u)
  \/ \E id \in UUIDs : CallAuthRequestByID(id)
  \/ \E id \in UUIDs : DeleteAuthRequest(id)

\* the usernames and passwords users are stored and validated with
Usernames == {"demo@example.com", "eve@example.com"}
Passwords == {"password123", "eve123"}

\* the users written to the store in the credential runs
CredentialUsers ==
  {MkUser(id, n, pw, n, "Eve", "Doe", "eve", "en", EmptyMap) :
     id \in {"user1", "eve1"}, n \in Usernames, pw \in Passwords}

\* users are stored, changed and removed, and credentials are validated
NextCredentials ==
  \/ \E u \in CredentialUsers : CreateUser(u)
  \/ \E u \in CredentialUsers : UpdateUser(u)
  \/ \E id \in {"user1", "eve1"} : DeleteUser(id)
  \/ \E n \in Usernames \cup {""}, pw \in Passwords \cup {""} : CallValidateUser(n, pw)

\* code exchanges served side by side by the token endpoint's goroutines
NextExchange ==
  \/ \E r \in FlowRunRequests : CreateAuthRequest(r[1], r[2], r[3])
  \/ \E id \in UUIDs : \E code \in CodesFor(id) : SaveAuthCode(id, code)
  \/ \E t \in Threads, code \in Codes : ExchangeCall(t, code)
  \/ \E t \in Threads : ExchangeByCode(t)
  \/ \E t \in Threads : ExchangeCreate(t)
  \/ \E t \in Threads : ExchangeRemove(t)
  \/ \E t \in Threads : ExchangeReturn(t)

\* refreshes served side by side by the token endpoint's goroutines, one
\* statement of CreateAccessAndRefreshTokens at a time
NextRefresh ==
  \/ CreateAuthRequest("demo-client", <<"openid">>, "user1")
  \/ \E t \in Threads, id \in UUIDs : RotateCall(t, id, EmptyID)
  \/ \E t \in Threads, token \in RefreshUUIDs, id \in UUIDs :
       RefreshCall(t, "demo-client", token, id)
  \/ \E t \in Threads : RefreshInfo(t)
  \/ \E t \in Threads : RotateLock(t)
  \/ \E t \in Threads : RotatePutAccess(t)
  \/ \E t \in Threads : RotatePutRefresh(t)
  \/ \E t \in Threads : RotatePutIndex(t)
  \/ \E t \in Threads : RotateRemoveOld(t)
  \/ \E t \in Threads : RotateDelIndex(t)
  \/ \E t \in Threads : RotateUnlock(t)

\* the operations of all four stores called side by side: each goroutine may
\* create authorization requests and then serves one store operation
NextLocks ==
  \/ \E t \in Threads : NewRequestCall(t, "demo-client", <<"openid">>, "user1")
  \/ \E t \in Threads : NewRequestLock(t)
  \/ \E t \in Threads : NewRequestPut(t)
  \/ \E t \in Threads, c \in LockCalls : StoreCall(t, c)
  \/ \E t \in Threads, op \in DOMAIN StoreOps : StoreLock(t, op)
  \/ \E t \in Threads : StoreUnlock(t)

SpecUsers == Init /\ [][NextUsers]_vars
SpecTokens == Init /\ [][NextTokens]_vars
SpecUserinfo == Init /\ [][NextUserinfo]_vars
SpecRequests == Init /\ [][NextRequests]_vars
SpecFlows == Init /\ [][NextFlows]_vars
SpecSessions == Init /\ [][NextSessions]_vars
SpecRevocation == Init /\ [][NextRevocation]_vars
SpecRotation == Init /\ [][NextRotation]_vars
SpecCallback == Init /\ [][NextCallback]_vars
SpecLogin == Init /\ [][NextLogin]_vars
SpecClients == Init /\ [][NextClients]_vars
SpecKeys == Init /\ [][NextKeys]_vars
SpecIssuance == Init /\ [][NextIssuance]_vars
SpecCreation == Init /\ [][NextCreation]_vars
SpecCredentials == Init /\ [][NextCredentials]_vars
SpecExchange == Init /\ [][NextExchange]_vars
SpecRefresh == Init /\ [][NextRefresh]_vars
SpecLocks == Init /\ [][NextLocks]_vars
\* the scheduler runs every goroutine that can take a step
SpecLocksFair == SpecLocks /\ WF_vars(\E t \in Threads : GoroutineStep(t))

(* ------------------------------- claims ------------------------------- *)
\* the last call was a CreateAccessAndRefreshTokens whose currentRefreshToken
\* was a stored refresh token
RotationCalled ==
  last.op = "CreateAccessAndRefreshTokens" /\ last.stored

\* C1: after CreateAccessAndRefreshTokens is called with currentRefreshToken
\* equal to a stored refresh token R_old, no stored token has R_old as its
\* RefreshToken back-reference: the access token minted with R_old is gone.
C1_RotationRemovesPairedAccessToken ==
  RotationCalled =>
    \A t \in DOMAIN tokens : tokens[t].RefreshToken # last.cur

\* C2: after CreateAccessAndRefreshTokens succeeds with currentRefreshToken
\* equal to a stored refresh token R_old, GetRefreshTokenInfo(clientID, R_old)
\* and TokenRequestByRefreshToken(R_old) return an error for every client id,
\* and introspecting R_old reports Active = false.
C2_RotationInvalidatesOldRefreshToken ==
  (RotationCalled /\ last.err = "none") =>
    /\ \A c \in ClientIDs : GetRefreshTokenInfo(c, last.cur).err # "none"
    /\ TokenRequestByRefreshToken(last.cur).err # "none"
    /\ \A a \in IntrospectArgs :
         ~SetIntrospectionFromToken(last.cur, a[1], a[2]).resp.Active

\* C2 witness: a rotation of a stored refresh token has succeeded and put a
\* new pair in the store
C2_Witness ==
  /\ RotationCalled /\ last.err = "none"
  /\ last.newRefreshTokenID \in DOMAIN refreshTokens
  /\ last.accessTokenID \in DOMAIN tokens

\* flow p has run both steps of a refresh: the lookup resolved a stored,
\* unexpired refresh token, and CreateAccessAndRefreshTokens has returned
RefreshRan(p) ==
  /\ ex[p].req.kind = "RefreshTokenRequest"
  /\ ex[p].pc \in {"refreshed", "failed"}

\* C3: a refresh of a stored, unexpired refresh token R1 (the request resolved
\* by TokenRequestByRefreshToken(R1), then CreateAccessAndRefreshTokens with
\* currentRefreshToken = R1) returns no error, and the new access token
\* introspects as Active with the subject, client and scopes R1 carried.
C3_RefreshFlowSucceeds ==
  \A p \in Procs :
    RefreshRan(p) =>
      /\ ex[p].pc = "refreshed"
      /\ \A a \in IntrospectArgs :
           LET resp == SetIntrospectionFromToken(ex[p].at, a[1], a[2]).resp IN
           /\ resp.Active
           /\ resp.Subject = ex[p].req.UserID
           /\ resp.ClientID = ex[p].req.ClientID
           /\ resp.Scope = ex[p].req.Scopes

\* C4: for a completed request with an issued code, the first exchange
\* (AuthRequestByCode, CreateAccessAndRefreshTokens, DeleteAuthRequest) does
\* not fail at the lookup while the request is stored; after a successful
\* exchange, a second one with the same code fails not-found at
\* AuthRequestByCode and stores no new token.
C4_OneTimeCode ==
  \A p \in Procs :
    /\ (ex[p].attempt = 1 /\ ex[p].pc = "failed" /\ ex[p].id \in requests) =>
         ex[p].err # "auth request not found by code"
    /\ (ex[p].attempt = 2 /\ ex[p].first = "exchanged" /\ ex[p].pc # "hasCode") =>
         /\ ex[p].pc = "failed"
         /\ ex[p].err = "auth request not found by code"
         /\ ex[p].at = EmptyID

\* C5: right after SaveAuthCode(id, code) succeeds, AuthRequestByCode(code)
\* returns the request with that id, for any code value.
C5_CodeRoundTrip ==
  (last.op = "SaveAuthCode" /\ last.err = "none") =>
    AuthRequestByCode(last.code) = [err |-> "none", ptr |-> last.id]

\* the last call was a GetPrivateClaimsFromScopes for a stored user
ClaimsReturned ==
  last.op = "GetPrivateClaimsFromScopes" /\ last.ret.err = "none"

\* C6: the map GetPrivateClaimsFromScopes returns holds a profile claim only
\* if "profile" is in the scopes and an email claim only if "email" is.
C6_ScopeGating ==
  ClaimsReturned =>
    /\ \A k \in ProfileClaims :
         k \in DOMAIN last.ret.claims => Contains(last.scopes, "profile")
    /\ \A k \in EmailClaims :
         k \in DOMAIN last.ret.claims => Contains(last.scopes, "email")

\* C7: the map GetPrivateClaimsFromScopes returns holds "sub" with the user's
\* id, and every entry of the user's custom claim map.
C7_SubAndCustomClaims ==
  ClaimsReturned =>
    /\ "sub" \in DOMAIN last.ret.claims
    /\ last.ret.claims["sub"] = last.userID
    /\ \A k \in DOMAIN users[last.userID].Claims :
         /\ k \in DOMAIN last.ret.claims
         /\ last.ret.claims[k] = users[last.userID].Claims[k]

\* C8: SetUserinfoFromToken(tokenID, subject) fills in email and
\* email_verified only if the token stored under tokenID was granted "email",
\* and the profile fields only if it was granted "profile".
C8_UserinfoGatedByTokenScopes ==
  (last.op = "SetUserinfoFromToken" /\ last.ret.err = "none"
     /\ last.tokenID \in DOMAIN tokens) =>
    LET ui == last.ret.userinfo
        scopes == tokens[last.tokenID].Scopes IN
    /\ (ui.Email # "" \/ ui.EmailVerified) => Contains(scopes, "email")
    /\ (ui.Name # "" \/ ui.GivenName # "" \/ ui.FamilyName # ""
          \/ ui.PreferredUsername # "" \/ ui.Locale # "") => Contains(scopes, "profile")

\* C9: GetRefreshTokenInfo(clientID, token) returns a subject and token id
\* only if the refresh token is stored, its ClientID equals clientID, and now
\* is not after its expiry.
C9_RefreshTokenInfoChecksExpiry ==
  (last.op = "GetRefreshTokenInfo" /\ last.ret.err = "none") =>
    /\ last.token \in DOMAIN refreshTokens
    /\ refreshTokens[last.token].ClientID = last.clientID
    /\ ~After(refreshTokens[last.token].ExpiresAt)

\* C10: SetIntrospectionFromToken never returns an error; it reports
\* Active = false when the token id is absent or the token's expiry is before
\* now, and otherwise Active = true with the subject, client id, scopes, issue
\* time and expiry stored in the token.
C10_Introspection ==
  last.op = "SetIntrospectionFromToken" =>
    /\ last.ret.err = "none"
    /\ IF last.tokenID \notin DOMAIN tokens \/ tokens[last.tokenID].ExpiresAt < now
       THEN ~last.ret.resp.Active
       ELSE /\ last.ret.resp.Active
            /\ last.ret.resp.Subject = tokens[last.tokenID].UserID
            /\ last.ret.resp.ClientID = tokens[last.tokenID].ClientID
            /\ last.ret.resp.Scope = tokens[last.tokenID].Scopes
            /\ last.ret.resp.IssuedAt = tokens[last.tokenID].CreatedAt
            /\ last.ret.resp.Expiration = tokens[last.tokenID].ExpiresAt

\* C10 witness: an introspection reported a stored token Active with a
\* subject and client other than the ones the caller passed, after the clock
\* had passed the expiry of another stored token
C10_Witness ==
  /\ last.op = "SetIntrospectionFromToken"
  /\ last.ret.resp.Active
  /\ last.ret.resp.Subject # last.subject
  /\ last.ret.resp.ClientID # last.clientID
  /\ \E t \in DOMAIN tokens : tokens[t].ExpiresAt < now

\* the token t belongs to the session the last TerminateSession call named
InSession(t) == t.UserID = last.userID /\ t.ClientID = last.clientID

\* C11: right after TerminateSession(subject, client) returns, no token of
\* that subject and client is in the token map or in the refresh-token index,
\* and every token of the pair that was stored before the call introspects as
\* inactive and is rejected by GetRefreshTokenInfo for every client id.
C11_TerminateSessionSweeps ==
  last.op = "TerminateSession" =>
    /\ last.err = "none"
    /\ \A t \in DOMAIN tokens : ~InSession(tokens[t])
    /\ \A t \in DOMAIN refreshTokens : ~InSession(refreshTokens[t])
    /\ \A t \in DOMAIN last.tokensBefore :
         InSession(last.tokensBefore[t]) =>
           /\ ~SetIntrospectionFromToken(t, last.userID, last.clientID).resp.Active
           /\ \A c \in ClientIDs : GetRefreshTokenInfo(c, t).err # "none"
    /\ \A t \in DOMAIN last.refreshTokensBefore :
         InSession(last.refreshTokensBefore[t]) =>
           \A c \in ClientIDs : GetRefreshTokenInfo(c, t).err # "none"

\* C11 witness: a TerminateSession call swept an access token and a refresh
\* token of its subject and client, after an earlier rotation or revocation
\* had already removed a token
C11_Witness ==
  /\ last.op = "TerminateSession"
  /\ \E t \in DOMAIN last.refreshTokensBefore : InSession(last.refreshTokensBefore[t])
  /\ \E t \in DOMAIN last.tokensBefore :
       InSession(last.tokensBefore[t]) /\ last.tokensBefore[t].TokenType = "access"
  /\ \E id \in 1..uuid : id \notin requests /\ id \notin DOMAIN last.tokensBefore

\* C12: right after TerminateSession(subject, client), every token that was
\* stored before the call with another subject or another client is still in
\* the token map with the same attributes and the same introspection result,
\* and, if it was in the refresh-token index, is still there unchanged.
C12_TerminateSessionFrame ==
  last.op = "TerminateSession" =>
    /\ \A t \in DOMAIN last.tokensBefore :
         ~InSession(last.tokensBefore[t]) =>
           /\ t \in DOMAIN tokens
           /\ tokens[t] = last.tokensBefore[t]
           /\ SetIntrospectionFromToken(t, "", "").resp = last.introBefore[t]
    /\ \A t \in DOMAIN last.refreshTokensBefore :
         ~InSession(last.refreshTokensBefore[t]) =>
           /\ t \in DOMAIN refreshTokens
           /\ refreshTokens[t] = last.refreshTokensBefore[t]

\* C12 witness: a TerminateSession call removed a token while a token of
\* another subject stayed in the store
C12_Witness ==
  /\ last.op = "TerminateSession"
  /\ (DOMAIN last.tokensBefore) \ (DOMAIN tokens) # {}
  /\ \E t \in DOMAIN tokens : tokens[t].UserID # last.userID

DeletedRequests == (1..uuid) \ requests

\* C14: in every step of the authorization request store, a request whose
\* IsDone is true keeps IsDone true; a successful DeleteAuthRequest(id) takes
\* id out of the map; a deleted id is never in the map again; and a call of
\* AuthRequestByID, SaveAuthCode or DeleteAuthRequest on a deleted id, or of
\* AuthRequestByCode with a code issued for it, reports not-found.
C14_LifecycleForward ==
  [][ /\ \A id \in (DOMAIN objs) \cap (DOMAIN objs') : objs[id].IsDone => objs'[id].IsDone
      /\ (last'.op = "DeleteAuthRequest" /\ last'.err = "none") => last'.id \notin requests'
      /\ \A id \in DeletedRequests : id \notin requests'
      /\ (last'.op \in {"AuthRequestByID", "SaveAuthCode", "DeleteAuthRequest"}
            /\ last'.id \in DeletedRequests) => last'.err = "auth request not found"
      /\ (last'.op = "AuthRequestByCode"
            /\ \E id \in DeletedRequests : last'.code \in CodesFor(id)) =>
           last'.ret.err = "auth request not found by code"
    ]_vars

\* C14 witness: a deleted request has been looked up with its id as the code,
\* and the lookup reported not-found
C14_Witness ==
  /\ last.op = "AuthRequestByCode"
  /\ last.code \in DeletedRequests
  /\ last.ret.err = "auth request not found by code"

\* no endpoint accepts the id as a refresh token or reports it Active
Rejected(id) ==
  /\ \A c \in ClientIDs : GetRefreshTokenInfo(c, id).err # "none"
  /\ TokenRequestByRefreshToken(id).err # "none"
  /\ ~SetIntrospectionFromToken(id, "", "").resp.Active

\* the token ids that were issued and have since been removed by a rotation
\* or a revocation; in the revocation runs requests are never deleted, so a
\* drawn uuid that is no stored request named a token
RetiredTokens == ((1..uuid) \ requests) \ ((DOMAIN tokens) \cup (DOMAIN refreshTokens))

\* C15: in every step of the token store, a refresh token id that
\* CreateAccessAndRefreshTokens has just superseded, or that RevokeToken has just
\* removed, is rejected by GetRefreshTokenInfo and TokenRequestByRefreshToken and
\* not Active in introspection; and an id that has been removed stays
\* rejected after every later step.
C15_RotatedRevokedTerminal ==
  [][ \A id \in UUIDs :
        /\ (last'.op = "CreateAccessAndRefreshTokens" /\ last'.stored /\ last'.err = "none"
              /\ last'.cur = id) => Rejected(id)'
        /\ (last'.op = "RevokeToken" /\ last'.err = "none" /\ last'.token = id
              /\ id \in DOMAIN last'.refreshTokensBefore) => Rejected(id)'
        /\ id \in RetiredTokens => Rejected(id)'
    ]_vars

\* C15 witness: RevokeToken has removed a stored refresh token after an
\* earlier rotation had superseded another one
C15_Witness ==
  /\ last.op = "RevokeToken" /\ last.err = "none"
  /\ last.token \in DOMAIN last.refreshTokensBefore
  /\ \E id \in RetiredTokens : id # last.token /\ id \notin DOMAIN last.tokensBefore

\* the last call was a RevokeToken with a value that named no stored token
RevokedUnknown ==
  /\ last.op = "RevokeToken"
  /\ last.token \notin DOMAIN last.tokensBefore
  /\ last.token \notin DOMAIN last.refreshTokensBefore

\* C19: RevokeToken with a value that is neither a stored token id nor a stored
\* refresh-token value returns no error and leaves the token map and the
\* refresh-token index as they were.
C19_RevokeUnknownIsClean ==
  RevokedUnknown =>
    /\ last.err = "none"
    /\ tokens = last.tokensBefore
    /\ refreshTokens = last.refreshTokensBefore

\* the last call was a RevokeToken of a stored refresh token
RevokedRefresh ==
  /\ last.op = "RevokeToken"
  /\ last.token \in DOMAIN last.refreshTokensBefore

\* C20: RevokeToken on a stored refresh token returns no error and removes it
\* from the token map and the refresh-token index; every other token,
\* the access token issued with it included, keeps its map entry, its index
\* entry and its introspection result, and that access token is reported
\* Active exactly while now is not after its expiry.
C20_RevokeDoesNotCascade ==
  RevokedRefresh =>
    /\ last.err = "none"
    /\ last.token \notin DOMAIN tokens
    /\ last.token \notin DOMAIN refreshTokens
    /\ \A t \in (DOMAIN last.tokensBefore) \ {last.token} :
         /\ t \in DOMAIN tokens
         /\ tokens[t] = last.tokensBefore[t]
         /\ SetIntrospectionFromToken(t, "", "").resp = last.introBefore[t]
         /\ tokens[t].RefreshToken = last.token =>
              SetIntrospectionFromToken(t, "", "").resp.Active = ~After(tokens[t].ExpiresAt)
    /\ \A t \in (DOMAIN last.refreshTokensBefore) \ {last.token} :
         /\ t \in DOMAIN refreshTokens
         /\ refreshTokens[t] = last.refreshTokensBefore[t]

\* C20 witness: RevokeToken removed a refresh token whose access token is
\* still stored and Active, next to another stored refresh token
C20_Witness ==
  /\ RevokedRefresh
  /\ \E t \in DOMAIN tokens :
       /\ tokens[t].RefreshToken = last.token
       /\ SetIntrospectionFromToken(t, "", "").resp.Active
  /\ DOMAIN refreshTokens # {}

\* the id is accepted as a refresh token by the read-only calls
Valid(id) ==
  /\ \E c \in ClientIDs : GetRefreshTokenInfo(c, id).err = "none"
  /\ TokenRequestByRefreshToken(id).err = "none"

\* goroutine r is inside a read-only call and holds the read lock
HoldsRLock(r) == th[r].pc = "runlock"

\* goroutine w has taken the lock for a rotation of a refresh token that was
\* stored then, and has not returned
InRotation(w) ==
  /\ th[w].op = "CreateAccessAndRefreshTokens"
  /\ th[w].pc \in {"putAccess", "putRefresh", "putIndex", "removeOld", "delIndex", "unlock"}
  /\ th[w].stored

\* C16: whenever a GetRefreshTokenInfo or TokenRequestByRefreshToken call holds
\* the read lock, exactly one of R_old and the new refresh token is valid for
\* every rotation that has begun and not returned, and for the rotation that
\* returned last R_old is not valid and the new refresh token is.
C16_RotationAtomicToReaders ==
  \A r \in Threads :
    HoldsRLock(r) =>
      /\ \A w \in Threads : InRotation(w) => (Valid(th[w].cur) # Valid(th[w].nrt))
      /\ (RotationCalled /\ last.err = "none") =>
           (~Valid(last.cur) /\ Valid(last.newRefreshTokenID))

\* C16 witness: a rotation is between its writes, with R_old and the new
\* refresh token both in the index, while a read-only call on R_old has been
\* made and waits for the read lock
C16_Witness ==
  \E r, w \in Threads :
    /\ InRotation(w) /\ th[w].pc = "removeOld"
    /\ Valid(th[w].cur) /\ Valid(th[w].nrt)
    /\ th[r].pc = "rlock" /\ th[r].cur = th[w].cur

\* goroutine t stands at a statement that writes UserID or IsDone of a
\* stored authorization request
WritesRequest(t) == th[t].pc \in {"cbSetUser", "cbSetDone", "sacSetDone"}

\* C17: a goroutine that writes UserID or IsDone of a stored authorization
\* request holds the request store's mutex for writing at that statement, the
\* login callback's two assignments included.
C17_RequestWritesHoldLock ==
  \A t \in Threads : WritesRequest(t) => mus.mu.w = t

\* C18: the subject of every completed stored request is a user id that
\* handleLogin obtained from ValidateUser for that request and put in the
\* callback redirect, for any sequence of login-page, login-handler and
\* login-callback requests.
C18_SubjectWasValidated ==
  \A id \in requests :
    objs[id].IsDone => <<id, objs[id].UserID>> \in redirects

(* ------------------------- C21: token invariants ---------------------- *)
\* every stored token expires strictly after it was created
ExpiryAfterCreation ==
  /\ \A t \in DOMAIN tokens : tokens[t].ExpiresAt > tokens[t].CreatedAt
  /\ \A t \in DOMAIN refreshTokens : refreshTokens[t].ExpiresAt > refreshTokens[t].CreatedAt

\* the step is a successful CreateAccessAndRefreshTokens call
PairCreated ==
  /\ last'.op = "CreateAccessAndRefreshTokens"
  /\ last'.err = "none"
  /\ uuid' = uuid + 2

\* the step is a successful CreateAccessToken call
AccessCreated ==
  /\ last'.op = "CreateAccessToken"
  /\ last'.err = "none"
  /\ uuid' = uuid + 1

\* C21: every stored token's ExpiresAt is strictly after its CreatedAt; the
\* access token a CreateAccessAndRefreshTokens call stores carries a non-empty
\* RefreshToken back-reference equal to the id of the refresh token the same
\* call stored; the access token a CreateAccessToken call stores has an empty
\* back-reference, and that call adds no refresh token.
C21_TokenInvariants ==
  /\ []ExpiryAfterCreation
  /\ [][/\ PairCreated =>
            /\ last'.accessTokenID \notin DOMAIN tokens
            /\ last'.newRefreshTokenID \notin DOMAIN tokens
            /\ last'.accessTokenID \in DOMAIN tokens'
            /\ last'.newRefreshTokenID \in DOMAIN refreshTokens'
            /\ last'.newRefreshTokenID # EmptyID
            /\ tokens'[last'.accessTokenID].TokenType = "access"
            /\ tokens'[last'.accessTokenID].RefreshToken = last'.newRefreshTokenID
            /\ refreshTokens'[last'.newRefreshTokenID].ID = last'.newRefreshTokenID
            /\ refreshTokens'[last'.newRefreshTokenID].TokenType = "refresh"
       /\ AccessCreated =>
            /\ last'.accessTokenID \notin DOMAIN tokens
            /\ last'.accessTokenID \in DOMAIN tokens'
            /\ tokens'[last'.accessTokenID].TokenType = "access"
            /\ tokens'[last'.accessTokenID].RefreshToken = EmptyID
            /\ DOMAIN tokens' = DOMAIN tokens \cup {last'.accessTokenID}
            /\ refreshTokens' = refreshTokens]_vars

\* both kinds of access token are stored side by side: the one of the last
\* CreateAccessAndRefreshTokens call with its refresh token, and one without a
\* back-reference that CreateAccessToken stored
C21_Witness ==
  /\ last.op = "CreateAccessAndRefreshTokens"
  /\ last.err = "none"
  /\ last.accessTokenID \in DOMAIN tokens
  /\ last.newRefreshTokenID \in DOMAIN refreshTokens
  /\ tokens[last.accessTokenID].RefreshToken = last.newRefreshTokenID
  /\ \E t \in DOMAIN tokens :
       /\ tokens[t].TokenType = "access"
       /\ tokens[t].RefreshToken = EmptyID
       /\ tokens[t].ExpiresAt > tokens[t].CreatedAt

(* --------------------------- C22: client registry --------------------- *)
\* the step is a CreateClient call with an explicit ClientID that is registered
CreatesRegistered ==
  /\ last'.op = "CreateClient"
  /\ last'.client.ClientID # ""
  /\ last'.client.ClientID \in DOMAIN clients

\* C22: CreateClient with an explicitly supplied ClientID that is already
\* registered fails with an already-exists error and leaves the registered
\* descriptor (secret, redirect URIs, grant types) as it was; CreateClient
\* never replaces a registered client.
C22_CreateExistingFails ==
  [][CreatesRegistered =>
       /\ last'.err = "already exists"
       /\ clients' = clients]_vars

(* ----------------------------- C23: signing key ----------------------- *)
\* C23: the store serves one signing key for its lifetime: no operation
\* changes the key or its id, every SigningKey call returns that key and key
\* id, KeySet returns exactly one entry with that key id and algorithm RS256,
\* and GetKeyByIDAndClientID succeeds for that key id and returns not-found
\* for every other key id.
C23_OneSigningKey ==
  /\ keyStore = NewKeys
  /\ last.op = "SigningKey" =>
       /\ last.ret.err = "none"
       /\ last.ret.key = NewKeys.signingKey
       /\ last.ret.keyID = NewKeys.keyID
  /\ last.op = "KeySet" =>
       /\ last.ret.err = "none"
       /\ Len(last.ret.list) = 1
       /\ last.ret.list[1].keyID = NewKeys.keyID
       /\ last.ret.list[1].alg = "RS256"
  /\ last.op = "GetKeyByIDAndClientID" =>
       IF last.keyID = NewKeys.keyID
       THEN /\ last.ret.err = "none"
            /\ last.ret.jwk.KeyID = NewKeys.keyID
            /\ last.ret.jwk.Key = PublicKey(NewKeys.signingKey)
       ELSE last.ret.err = "key not found"

\* after tokens were issued, a lookup of a token's id as key id was answered
\* with not-found
C23_Witness ==
  /\ last.op = "GetKeyByIDAndClientID"
  /\ \E t \in DOMAIN tokens : last.keyID = UUIDString(t)
  /\ last.ret.err = "key not found"
  /\ SigningKey.keyID = NewKeys.keyID
  /\ GetKeyByIDAndClientID(SigningKey.keyID, last.clientID).err = "none"

(* ---------------------- C24: unsupported token requests --------------- *)
\* the step is a token creation call with a request that is no *AuthRequest
UnsupportedCalled ==
  /\ last'.op \in {"CreateAccessToken", "CreateAccessAndRefreshTokens"}
  /\ last'.kind # "AuthRequest"

\* C24: a token creation call (CreateAccessToken or
\* CreateAccessAndRefreshTokens) with a request of an unrecognised shape
\* returns the unsupported-request error, and leaves the token map and the
\* refresh-token index exactly as they were: no token is created and no
\* superseded refresh token is removed.
C24_UnsupportedRequestRejected ==
  [][UnsupportedCalled =>
       /\ last'.err = "unsupported token request type"
       /\ tokens' = tokens
       /\ refreshTokens' = refreshTokens]_vars

\* a CreateAccessAndRefreshTokens call with a refresh-token request and a
\* stored currentRefreshToken was rejected, and that refresh token is still stored
C24_Witness ==
  /\ last.op = "CreateAccessAndRefreshTokens"
  /\ last.kind = "RefreshTokenRequest"
  /\ last.err = "unsupported token request type"
  /\ last.stored
  /\ last.cur \in DOMAIN refreshTokens
  /\ last.cur \in DOMAIN tokens

(* -------------------------- C25: creation round trip ------------------ *)
\* the PKCE code challenge of an inbound request, as the *oidc.CodeChallenge a
\* stored request answers GetCodeChallenge with: nil when none was sent
InboundChallenge(authReq) ==
  IF authReq.CodeChallenge = "" THEN NilChallenge
  ELSE {[Challenge |-> authReq.CodeChallenge, Method |-> authReq.CodeChallengeMethod]}

\* the request stored under id answers with the values of the inbound request
EqualsInbound(id, authReq, userID) ==
  /\ AuthRequestByID(id).err = "none"
  /\ LET r == objs[AuthRequestByID(id).ptr] IN
     /\ r.ID = id
     /\ ~r.IsDone
     /\ r.ClientID = authReq.ClientID
     /\ r.RedirectURI = authReq.RedirectURI
     /\ r.Scopes = authReq.Scopes
     /\ r.ResponseType = authReq.ResponseType
     /\ r.ResponseMode = authReq.ResponseMode
     /\ r.State = authReq.State
     /\ r.Nonce = authReq.Nonce
     /\ r.UserID = userID
     /\ r.CodeChallenge = InboundChallenge(authReq)

Matching(username, password) ==
  {id \in DOMAIN users : users[id].Username = username /\ users[id].Password = password}

\* C26: ValidateUser(username, password) returns a user id only if some stored
\* user has exactly that username and exactly that password, and then it is
\* that user's id; otherwise it returns the invalid-credentials error; the
\* call leaves the user store unchanged.
C26_ValidateUser ==
  /\ [](last.op = "ValidateUser" =>
          IF Matching(last.username, last.password) # {}
          THEN /\ last.err = "none"
               /\ last.userID \in Matching(last.username, last.password)
               /\ users[last.userID].ID = last.userID
          ELSE /\ last.err = "invalid credentials"
               /\ last.userID = "")
  /\ [][last'.op = "ValidateUser" => users' = users]_vars

\* the credentials of a user created after construction were accepted, while
\* another stored user has the same username and another password
C26_Witness ==
  /\ last.op = "ValidateUser"
  /\ last.err = "none"
  /\ last.userID \notin DOMAIN SeedUsers
  /\ \E id \in DOMAIN users :
       /\ id # last.userID
       /\ users[id].Username = last.username
       /\ users[id].Password # last.password

(* ------------------------- C27: client authentication ----------------- *)
\* C27: AuthorizeClientIDSecret returns success exactly when the client id is
\* registered and the stored secret equals the presented one; it returns an
\* error for an unknown client and for a wrong secret; it never modifies the
\* registry.
C27_AuthorizeClientIDSecret ==
  /\ [](last.op = "AuthorizeClientIDSecret" =>
          /\ last.err = "none" <=>
               /\ last.id \in DOMAIN clients
               /\ clients[last.id].ClientSecret = last.secret
          /\ last.id \notin DOMAIN clients => last.err = "client not found"
          /\ (last.id \in DOMAIN clients /\ clients[last.id].ClientSecret # last.secret)
               => last.err = "invalid client secret")
  /\ [][last'.op = "AuthorizeClientIDSecret" => clients' = clients]_vars

\* the default client presented the secret it was registered with at
\* construction after its secret had been changed, and was refused
C27_Witness ==
  /\ last.op = "AuthorizeClientIDSecret"
  /\ last.id = "demo-client"
  /\ last.secret = DefaultClient.ClientSecret
  /\ last.err = "invalid client secret"
  /\ AuthorizeClientIDSecret("demo-client", "new-secret") = "none"

(* ----------------------- C28: generated ids, not-found ---------------- *)
\* C28: CreateClient with an empty ClientID assigns a generated non-empty id
\* and stores the client under it; UpdateClient and DeleteClient on an id that
\* is not registered return not-found and leave the registry unchanged.
C28_GeneratedIDAndNotFound ==
  [][/\ (last'.op = "CreateClient" /\ last'.client.ClientID = "") =>
          /\ last'.err = "none"
          /\ last'.id # ""
          /\ last'.id \in DOMAIN clients'
          /\ clients'[last'.id] = [last'.client EXCEPT !.ClientID = last'.id]
          /\ \A c \in DOMAIN clients : c # last'.id => clients'[c] = clients[c]
     /\ (last'.op = "UpdateClient" /\ last'.client.ClientID \notin DOMAIN clients) =>
          /\ last'.err = "client not found"
          /\ clients' = clients
     /\ (last'.op = "DeleteClient" /\ last'.id \notin DOMAIN clients) =>
          /\ last'.err = "client not found"
          /\ clients' = clients]_vars

\* a client registered without an id is stored under a generated id, and a
\* removal of an unregistered id was then answered with not-found
C28_Witness ==
  /\ \E n \in 1..MaxClients :
       /\ UUIDString(n) \in DOMAIN clients
       /\ clients[UUIDString(n)].ClientID = UUIDString(n)
  /\ last.op = "DeleteClient"
  /\ last.id \notin DOMAIN clients
  /\ last.err = "client not found"

(* ---------------------- C29: concurrent code exchange ----------------- *)
\* the exchange goroutine t runs has stored a token pair
Exchanged(t) ==
  /\ th[t].op = "Exchange"
  /\ th[t].at \in DOMAIN tokens
  /\ th[t].nrt \in DOMAIN refreshTokens

\* C29: when two exchanges of the same authorization code run concurrently,
\* each as the steps AuthRequestByCode, CreateAccessAndRefreshTokens,
\* DeleteAuthRequest, at most one of them results in a stored token pair.
C29_ConcurrentExchangeOnce ==
  \A t, u \in Threads :
    (t # u /\ th[t].op = "Exchange" /\ th[u].op = "Exchange" /\ th[t].code = th[u].code)
      => ~(Exchanged(t) /\ Exchanged(u))

(* -------------------------- C30: concurrent refresh ------------------- *)
\* goroutine t has stored the pair of its CreateAccessAndRefreshTokens call
PairStored(t) ==
  /\ th[t].op = "CreateAccessAndRefreshTokens"
  /\ th[t].pc \in {"removeOld", "delIndex", "unlock"}
  /\ th[t].at \in DOMAIN tokens
  /\ th[t].nrt \in DOMAIN refreshTokens

\* the last call to return was a CreateAccessAndRefreshTokens call that
\* presented refreshToken, and the pair it made is stored
LastMintedFor(refreshToken) ==
  /\ last.op = "CreateAccessAndRefreshTokens"
  /\ last.err = "none"
  /\ last.cur = refreshToken
  /\ last.accessTokenID \in DOMAIN tokens
  /\ last.newRefreshTokenID \in DOMAIN refreshTokens

\* C30: across any interleaving of refresh operations (GetRefreshTokenInfo,
\* then CreateAccessAndRefreshTokens with currentRefreshToken = R) that present
\* the same refresh token R, at most one new access and refresh pair is
\* stored; and a CreateAccessAndRefreshTokens call whose currentRefreshToken is
\* non-empty but no longer stored creates no tokens.
C30_RefreshMintsOnce ==
  /\ \A t \in Threads :
       (PairStored(t) /\ th[t].cur # EmptyID) => ~LastMintedFor(th[t].cur)
  /\ \A t, u \in Threads :
       (t # u /\ PairStored(t) /\ PairStored(u) /\ th[t].cur # EmptyID)
         => th[t].cur # th[u].cur
  /\ \A t \in Threads :
       (th[t].op = "CreateAccessAndRefreshTokens" /\ th[t].pc = "unlock"
          /\ th[t].cur # EmptyID /\ ~th[t].stored)
         => (th[t].at \notin DOMAIN tokens /\ th[t].nrt \notin DOMAIN tokens)

(* ------------------------ C31: pending requests and codes ------------- *)
\* C31: AuthRequestByCode resolves a request only through a code that
\* SaveAuthCode associated with it: for a stored request on which SaveAuthCode
\* was never called (it is not marked done), AuthRequestByCode returns
\* not-found for every code value, the request's own id included.
C31_PendingNotExchangeable ==
  last.op = "AuthRequestByCode" =>
    \A id \in requests :
      ~objs[id].IsDone =>
        /\ last.ret.err = "auth request not found by code" \/ last.ret.ptr # id
        /\ AuthRequestByCode(id).err = "auth request not found by code"

(* --------------------------- C32: tokens have a subject --------------- *)
\* C32: every stored token has a non-empty owning subject, and no token
\* creation call stores tokens derived from an authorization request that is
\* still pending (IsDone false or UserID empty).
C32_TokensHaveSubject ==
  /\ [](\A t \in DOMAIN tokens : tokens[t].UserID # "")
  /\ [][\A t \in Threads :
          (th[t].pc = "create" /\ th'[t].pc = "remove") =>
            /\ objs[th[t].id].IsDone
            /\ objs[th[t].id].UserID # ""]_vars

(* --------------------------- C33: revocation and the client ----------- *)
\* C33: RevokeToken(token, subject, clientID) removes a token only if that
\* token belongs to clientID (and to the subject, when one is given): a call
\* naming a token of another client removes nothing, and the token stays active.
C33_RevokeOnlyOwnClient ==
  (/\ last.op = "RevokeToken"
   /\ last.token \in DOMAIN last.tokensBefore
   /\ \/ last.tokensBefore[last.token].ClientID # last.clientID
      \/ last.userID # "" /\ last.tokensBefore[last.token].UserID # last.userID) =>
    /\ tokens = last.tokensBefore
    /\ refreshTokens = last.refreshTokensBefore
    /\ SetIntrospectionFromToken(last.token, "", "").resp.active

(* --------------------------- C34: the refresh-token index ------------- *)
\* C34: in every state reached by CreateAccessToken, CreateAccessAndRefreshTokens,
\* RevokeToken and TerminateSession calls, a key is in the refresh-token index
\* exactly when the token map holds a token of type "refresh" under that key,
\* and the two entries are the same token.
C34_RefreshIndexConsistent ==
  /\ \A k \in DOMAIN refreshTokens :
       /\ k \in DOMAIN tokens
       /\ tokens[k].TokenType = "refresh"
       /\ tokens[k] = refreshTokens[k]
  /\ \A k \in DOMAIN tokens :
       tokens[k].TokenType = "refresh" => k \in DOMAIN refreshTokens

\* a revocation or a session end has removed a refresh token from the index
\* while the access token of its pair and one issued on its own stay stored
C34_Witness ==
  /\ last.op \in {"RevokeToken", "TerminateSession"}
  /\ (DOMAIN last.refreshTokensBefore) \ (DOMAIN refreshTokens) # {}
  /\ \E k \in DOMAIN tokens : tokens[k].RefreshToken \notin {EmptyID} \cup DOMAIN tokens
  /\ \E k \in DOMAIN tokens :
       tokens[k].TokenType = "access" /\ tokens[k].RefreshToken = EmptyID

(* --------------------------- C35: locks and completion ---------------- *)
\* the store mutexes goroutine t holds
HeldBy(t) == {m \in DOMAIN mus : mus[m].w = t \/ t \in mus[m].r}

\* C35: a goroutine never holds two store mutexes, it holds none once its
\* operation has returned, whether with an error or without, and every store
\* operation that goroutines run side by side on the client, request, user and
\* token stores eventually returns.
C35_OperationsComplete ==
  /\ [](\A t \in Threads :
          /\ Cardinality(HeldBy(t)) <= 1
          /\ th[t].pc \in {"idle", "done"} => HeldBy(t) = {})
  /\ <>[](\A t \in Threads : th[t].pc \in {"idle", "done"})

\* a goroutine is about to return an error while it holds the mutex another
\* goroutine waits to lock for writing
C35_Witness ==
  \E t, u \in Threads :
    /\ th[t].pc = "opUnlock" /\ th[t].ret # "none"
    /\ th[u].pc = "opLock"
    /\ th[u].clientID = th[t].clientID
    /\ th[u].stored
    /\ HeldBy(t) = {th[t].clientID}

====
